---------------------------- MODULE Spec2Model ----------------------------
(***************************************************************************)
(* A model of the date transformers of data-transformer                    *)
(* (src/src/transformers/date.ts).                                         *)
(*                                                                         *)
(* The transformers delegate to date-fns and date-fns-tz.  The import of   *)
(* fromZonedTime / toZonedTime (date.ts line 11) exists only in            *)
(* date-fns-tz 3.x, whose peer is date-fns 3.x or 4.x, so the library      *)
(* functions are modelled as date-fns >= 3 defines them:                   *)
(*   getUnixTime(d)   = Math.trunc(+d / 1000)                              *)
(*   fromUnixTime(s)  = new Date(s * 1000)                                 *)
(*   addDays(d, n)    = n ? (c = clone d; c.setDate(c.getDate() + n)) : d  *)
(*   subDays(d, n)    = addDays(d, -n)                                     *)
(*   format / formatInTimeZone / formatDistance throw RangeError on an     *)
(*   invalid Date.                                                         *)
(*                                                                         *)
(* Time values are integers of milliseconds since the epoch.  TLC's        *)
(* integers are 32 bits wide, so the time axis is a window of MaxDays days *)
(* around the epoch: ECMAScript's limit of 8.64e15 ms (TimeClip) is scaled *)
(* to MaxTimeValue, and the DST transitions of the modelled zones are      *)
(* placed inside the window.                                               *)
(***************************************************************************)
EXTENDS Integers, Sequences, FiniteSets, TLC

VARIABLES
    now,            \* the host clock: what Date.now() / new Date() returns
    hostTimeZone,   \* the host's time zone: Intl...resolvedOptions().timeZone
                    \* and the zone of the local-time methods of Date
    xf,             \* the transformer the client created last
    call,           \* the call that has just returned
    smart,          \* the formatDateSmart application in flight
    cur,            \* the value a pipeline of transformers is holding
    prev,           \* the call before `call` in that pipeline
    steps,          \* how many transformers the pipeline has applied
    dateObj,        \* the Date object that several callers hold: its time
                    \* value (a Date is mutable through its set... methods)
    tasks           \* the callers of the host's event loop: what each one
                    \* called and what came back

vars == <<now, hostTimeZone, xf, call, smart, cur, prev, steps, dateObj,
          tasks>>

---------------------------------------------------------------------------
(* Bounds of the model *)

\* The time axis spans -MaxDays .. MaxDays days (stands for +-8.64e15 ms).
MaxDays == 20
\* addDays / subtractDays are applied with -MaxShift .. MaxShift days.
MaxShift == 2
\* A pipeline applies at most MaxSteps transformers.
MaxSteps == 2
\* The clock advances at most MaxTicks times.
MaxTicks == 2
\* MaxTasks callers share a Date object.
MaxTasks == 2
\* A fieldMap has up to MaxFields entries.
MaxFields == 2
\* A string to truncate has up to MaxLen symbols.
MaxLen == 5
\* A name has up to MaxName characters.
MaxName == 3
\* An array to sort has up to MaxItems items.
MaxItems == 3
\* mergeObjects is given up to MaxSources sources.
MaxSources == 2

---------------------------------------------------------------------------
(* Numbers and Dates of the host language *)

MsPerMinute == 1000 * 60
MsPerHour == 1000 * 60 * 60
MsPerDay == 1000 * 60 * 60 * 24

MaxTimeValue == MaxDays * MsPerDay

Abs(i) == IF i < 0 THEN -i ELSE i

\* Math.trunc(a / b) for b > 0 (\div rounds down).
TruncDiv(a, b) == IF a >= 0 THEN a \div b ELSE -((-a) \div b)

\* Math.round(a / b) for a >= 0, b > 0: halves round up.
RoundDiv(a, b) == (2 * a + b) \div (2 * b)

\* A JavaScript number that is an integer, or NaN.
Num(i) == [kind |-> "number", nan |-> FALSE, v |-> i]
NaN == [kind |-> "number", nan |-> TRUE, v |-> 0]

\* A Date is its time value: an integer of milliseconds, or NaN.
DateOf(i) == [kind |-> "Date", nan |-> FALSE, v |-> i]
InvalidDate == [kind |-> "Date", nan |-> TRUE, v |-> 0]

\* new Date(value): TimeClip makes a time value out of range NaN.
NewDate(n) ==
    IF n.nan \/ Abs(n.v) > MaxTimeValue THEN InvalidDate ELSE DateOf(n.v)

\* date.getTime()
GetTime(date) == [kind |-> "number", nan |-> date.nan, v |-> date.v]

\* A slip the validity checks must catch: a test of the type only.
isInstanceOfDate(date) == date.kind = "Date"

\* date-fns isValid(date): !isNaN(+date)
isValidDate(date) == ~date.nan

---------------------------------------------------------------------------
(* Time zones: the host's zone database, as far as the model needs it.     *)
(* A zone has a standard and a daylight offset from UTC and one daylight   *)
(* period [dstStart, dstEnd) inside the window: a gap of local time at its *)
(* start, an overlap at its end.  As in the zone database, London and      *)
(* Berlin change at the same instant (01:00 UTC), New York at 02:00 of its *)
(* own wall clock on another day.  A host that reports no zone keeps UTC.  *)

TimezoneIds == {"UTC", "America/New_York", "Europe/London", "Europe/Berlin"}

ZoneRules(zone) ==
    CASE zone = "America/New_York" ->
            [std |-> -5 * MsPerHour, dst |-> -4 * MsPerHour,
             dstStart |-> 5 * MsPerDay + 7 * MsPerHour,
             dstEnd |-> 12 * MsPerDay + 6 * MsPerHour,
             stdAbbr |-> "EST", dstAbbr |-> "EDT",
             stdName |-> "Eastern Standard Time",
             dstName |-> "Eastern Daylight Time"]
      [] zone = "Europe/London" ->
            [std |-> 0, dst |-> 1 * MsPerHour,
             dstStart |-> 6 * MsPerDay + 1 * MsPerHour,
             dstEnd |-> 13 * MsPerDay + 1 * MsPerHour,
             stdAbbr |-> "GMT", dstAbbr |-> "GMT+1",
             stdName |-> "Greenwich Mean Time",
             dstName |-> "British Summer Time"]
      [] zone = "Europe/Berlin" ->
            [std |-> 1 * MsPerHour, dst |-> 2 * MsPerHour,
             dstStart |-> 6 * MsPerDay + 1 * MsPerHour,
             dstEnd |-> 13 * MsPerDay + 1 * MsPerHour,
             stdAbbr |-> "GMT+1", dstAbbr |-> "GMT+2",
             stdName |-> "Central European Standard Time",
             dstName |-> "Central European Summer Time"]
      [] OTHER ->
            [std |-> 0, dst |-> 0, dstStart |-> 0, dstEnd |-> 0,
             stdAbbr |-> "UTC", dstAbbr |-> "UTC",
             stdName |-> "Coordinated Universal Time",
             dstName |-> "Coordinated Universal Time"]

InDst(zone, t) == ZoneRules(zone).dstStart <= t /\ t < ZoneRules(zone).dstEnd

\* The zone's offset from UTC at instant t.
Offset(zone, t) ==
    IF InDst(zone, t) THEN ZoneRules(zone).dst ELSE ZoneRules(zone).std

\* The wall clock of the zone at instant t (ECMAScript LocalTime).
LocalTime(zone, t) == t + Offset(zone, t)

\* The instant of a wall-clock time (ECMAScript UTC(t)): of two instants in
\* an overlap the earlier one; in a gap the wall time is read with the
\* offset in force before the transition.
UTCOfLocal(zone, local) ==
    LET r == ZoneRules(zone)
        cands == {t \in {local - r.std, local - r.dst} :
                     LocalTime(zone, t) = local}
    IN  IF cands # {}
        THEN CHOOSE t \in cands : \A u \in cands : t <= u
        ELSE local - r.std

---------------------------------------------------------------------------
(* Timestamp conversions *)

\* date-fns getUnixTime
getUnixTime(date) ==
    IF date.nan THEN NaN ELSE Num(TruncDiv(date.v, 1000))

\* A slip the round trips must catch: the scaling to milliseconds left out.
fromUnixTimeUnscaled(n) == NewDate(n)

\* date-fns fromUnixTime: new Date(unixTime * 1000).  The range test is
\* made on the quotient so that the product stays within TLC's integers;
\* for an integer s, |s * 1000| > MaxTimeValue iff |s| > MaxTimeValue \div 1000.
fromUnixTime(n) ==
    IF n.nan \/ Abs(n.v) > MaxTimeValue \div 1000
    THEN InvalidDate
    ELSE NewDate(Num(n.v * 1000))

\* A slip the round trips must catch: a millisecond timestamp read as seconds.
fromUnixTimestampAsSeconds(timestamp) == fromUnixTime(timestamp)

toUnixTimestamp(date) == GetTime(date)

toUnixTimestampSeconds(date) == getUnixTime(date)

fromUnixTimestamp(timestamp) == NewDate(timestamp)

fromUnixTimestampSeconds(timestamp) == fromUnixTime(timestamp)

---------------------------------------------------------------------------
(* ISO 8601 strings.  A string is the list of the fields it spells out    *)
(* ("1970-01-06T07:00:00.000Z"), or a text that is no date at all.         *)

Iso(year, month, day, hour, minute, second, ms) ==
    [kind |-> "string", wellFormed |-> TRUE, year |-> year, month |-> month,
     day |-> day, hour |-> hour, minute |-> minute, second |-> second,
     ms |-> ms]

NotADate ==
    [kind |-> "string", wellFormed |-> FALSE, year |-> 0, month |-> 0,
     day |-> 0, hour |-> 0, minute |-> 0, second |-> 0, ms |-> 0]

\* The day number of a calendar date (ECMAScript MakeDay).
DaysFromCivil(year, month, day) ==
    LET y == IF month <= 2 THEN year - 1 ELSE year
        era == y \div 400
        yoe == y % 400
        mp == IF month > 2 THEN month - 3 ELSE month + 9
        doy == (153 * mp + 2) \div 5 + day - 1
        doe == yoe * 365 + yoe \div 4 - yoe \div 100 + doy
    IN  era * 146097 + doe - 719468

\* Date.parse of a string: NaN for a text that is no date and for fields
\* out of their ranges; else the time value of the fields, read as UTC.
\* Days beyond the window are out of the range of time values.
DateParse(str) ==
    IF \/ ~str.wellFormed
       \/ str.month \notin 1 .. 12
       \/ str.day \notin 1 .. 31
       \/ str.hour \notin 0 .. 23
       \/ str.minute \notin 0 .. 59
       \/ str.second \notin 0 .. 59
       \/ str.ms \notin 0 .. 999
    THEN NaN
    ELSE LET days == DaysFromCivil(str.year, str.month, str.day)
         IN  IF Abs(days) > MaxDays + 1 THEN NaN
             ELSE Num(days * MsPerDay + str.hour * MsPerHour
                      + str.minute * MsPerMinute + str.second * 1000
                      + str.ms)

\* new Date(isoString)
isoDateToLocal(isoString) == NewDate(DateParse(isoString))

---------------------------------------------------------------------------
(* Day arithmetic *)

\* date-fns addDays(date, amount): a clone of date, moved by setDate, which
\* works on the host zone's wall clock; amount 0 returns the clone as it is.
fnsAddDays(date, amount, zone) ==
    IF date.nan THEN InvalidDate
    ELSE IF amount = 0 THEN date
    ELSE NewDate(Num(UTCOfLocal(zone,
                                LocalTime(zone, date.v) + amount * MsPerDay)))

\* A slip the claims must notice: the days taken off as elapsed time.
fnsSubDaysElapsed(date, amount, zone) ==
    IF date.nan THEN InvalidDate
    ELSE NewDate(Num(date.v - amount * MsPerDay))

\* date-fns subDays(date, amount): addDays(date, -amount)
fnsSubDays(date, amount, zone) == fnsAddDays(date, -amount, zone)

addDays(days, date, zone) == fnsAddDays(date, days, zone)

subtractDays(days, date, zone) == fnsSubDays(date, days, zone)

---------------------------------------------------------------------------
(* Strings.  A formatted string is the list of what it shows: the pattern  *)
(* it was rendered with, the wall-clock reading it prints (cut to what the *)
(* pattern prints), the zone name it prints, and for a relative phrase its *)
(* unit, count and direction word.  A call that throws returns a record of *)
(* kind "throw" in place of a string.                                      *)

Str(pattern, wall, zoneName) ==
    [kind |-> "string", pattern |-> pattern, wall |-> wall,
     zoneName |-> zoneName, token |-> "", count |-> 0, affix |-> ""]

Phrase(token, count, affix) ==
    [kind |-> "string", pattern |-> "relative", wall |-> 0,
     zoneName |-> "", token |-> token, count |-> count, affix |-> affix]

Throw(message) ==
    [kind |-> "throw", pattern |-> "RangeError", wall |-> 0,
     zoneName |-> "", token |-> message, count |-> 0, affix |-> ""]

\* `${a} ${b}` of a date-and-time string and a zone-name string.
Concat(a, b) ==
    IF a.kind = "throw" THEN a
    ELSE IF b.kind = "throw" THEN b
    ELSE Str(a.pattern \o " " \o b.pattern, a.wall, b.zoneName)

\* An argument left out, and JavaScript's falsiness of a string argument.
Undefined == "undefined"
Falsy(str) == str = Undefined \/ str = ""

\* An optional number left out.
UndefinedNum == [kind |-> "undefined", nan |-> FALSE, v |-> 0]
\* JavaScript's falsiness of an optional number: undefined, 0 and NaN.
FalsyNum(n) == n.kind = "undefined" \/ n.nan \/ n.v = 0

DayPatterns == {"MM/dd/yyyy", "dd.MM.yyyy"}
MinutePatterns ==
    {"yyyy-MM-dd'T'HH:mm", "MM/dd/yyyy h:mm a", "MMMM d, yyyy h:mm a"}

\* The wall clock of `zone` at instant t, printed with a pattern.
Render(fmt, zone, t) ==
    LET local == LocalTime(zone, t)
        r == ZoneRules(zone)
    IN  CASE fmt \in DayPatterns ->
                Str(fmt, (local \div MsPerDay) * MsPerDay, "")
          [] fmt \in MinutePatterns ->
                Str(fmt, (local \div MsPerMinute) * MsPerMinute, "")
          [] fmt = "zzz" ->
                Str(fmt, 0, IF InDst(zone, t) THEN r.dstAbbr ELSE r.stdAbbr)
          [] fmt = "zzzz" ->
                Str(fmt, 0, IF InDst(zone, t) THEN r.dstName ELSE r.stdName)
          [] OTHER -> Str(fmt, 0, "")

\* date-fns format(date, fmt): the host zone's wall clock; RangeError on an
\* invalid Date.
format(date, fmt, host) ==
    IF date.nan THEN Throw("Invalid time value")
    ELSE Render(fmt, host, date.v)

\* date-fns-tz toZonedTime(date, timeZone): a Date whose local-time fields
\* read what the wall clock of timeZone shows at `date`.  It is built with
\* setFullYear / setHours, which work on the host zone's wall clock: a
\* reading that the host's clock skips (the gap at the start of its
\* daylight time) comes out moved by the width of the gap.  A zone that is
\* undefined or empty is taken with offset 0.
toZonedTime(date, timeZone, host) ==
    LET offset == IF Falsy(timeZone) THEN 0 ELSE Offset(timeZone, date.v)
    IN  DateOf(UTCOfLocal(host, date.v + offset))

\* date-fns-tz fixOffset: the offset of the zone for a wall-clock reading,
\* found from a first guess in at most two corrections.
fixOffset(local, offset, timeZone) ==
    LET o2 == Offset(timeZone, local - offset)
        o3 == Offset(timeZone, local - offset - (o2 - offset))
    IN  IF offset = o2 THEN offset
        ELSE IF o2 = o3 THEN o2
        ELSE IF o2 > o3 THEN o2 ELSE o3

\* date-fns-tz fromZonedTime(date, timeZone): the local-time fields of
\* date (read on the host's wall clock) are taken as a wall-clock reading
\* of timeZone; the result is the instant of that reading.  The first
\* guess of the offset is looked up at the fields of the reading, read on
\* the host's wall clock once more (toUtcDate).
fromZonedTime(date, timeZone, host) ==
    LET utc == LocalTime(host, date.v)
        offset == IF Falsy(timeZone) THEN 0
                  ELSE fixOffset(utc,
                                 Offset(timeZone, LocalTime(host, utc)),
                                 timeZone)
    IN  NewDate(Num(utc - offset))

\* date-fns-tz formatInTimeZone(date, timeZone, fmt):
\* format(toZonedTime(date, timeZone), fmt, { timeZone, originalDate: date }).
\* RangeError on a zone the host does not know and on an invalid Date; the
\* zone-name tokens are looked up for the original instant.
formatInTimeZone(date, timeZone, fmt, host) ==
    IF ~Falsy(timeZone) /\ timeZone \notin TimezoneIds
    THEN Throw("Invalid time zone specified")
    ELSE IF date.nan THEN Throw("Invalid time value")
    ELSE IF fmt \in {"zzz", "zzzz"}
    THEN Render(fmt, IF Falsy(timeZone) THEN host ELSE timeZone, date.v)
    ELSE format(toZonedTime(date, timeZone, host), fmt, host)

---------------------------------------------------------------------------
(* Relative phrases: date-fns formatDistance with the en-US locale *)

MinutesInDay == 60 * 24
MinutesInAlmostTwoDays == 60 * 42
MinutesInMonth == 60 * 24 * 30

\* The options of formatRelative: `given` is whether the caller passed an
\* object, hasAddSuffix whether that object has an addSuffix property.
NoOptions ==
    [given |-> FALSE, hasAddSuffix |-> FALSE, addSuffix |-> Undefined,
     includeSeconds |-> FALSE]

\* { addSuffix: true, ...options }
MergeOptions(options) ==
    [addSuffix |-> IF options.given /\ options.hasAddSuffix
                   THEN options.addSuffix ELSE "true",
     includeSeconds |-> options.given /\ options.includeSeconds]

\* The en-US locale's formatDistance: the direction word around the phrase.
LocaleFormatDistance(token, count, addSuffix, comparison) ==
    Phrase(token, count,
           IF addSuffix = "true"
           THEN (IF comparison > 0 THEN "in " ELSE " ago")
           ELSE "")

\* date-fns formatDistance(date, baseDate, options).  Both dates are read on
\* the host zone's wall clock (getTimezoneOffsetInMilliseconds).  Distances
\* of two months and more lie outside the window of the model.
formatDistance(date, baseDate, options, host) ==
    IF date.nan \/ baseDate.nan THEN Throw("Invalid time value")
    ELSE
    LET comparison == IF date.v < baseDate.v THEN -1
                      ELSE IF date.v > baseDate.v THEN 1 ELSE 0
        dateLeft == IF comparison > 0 THEN baseDate.v ELSE date.v
        dateRight == IF comparison > 0 THEN date.v ELSE baseDate.v
        seconds == TruncDiv(dateRight - dateLeft, 1000)
        offsetInSeconds ==
            ((-Offset(host, dateRight)) - (-Offset(host, dateLeft))) \div 1000
        minutes == RoundDiv(seconds - offsetInSeconds, 60)
        Say(token, count) ==
            LocaleFormatDistance(token, count, options.addSuffix, comparison)
    IN  IF minutes < 2 THEN
            IF options.includeSeconds THEN
                IF seconds < 5 THEN Say("lessThanXSeconds", 5)
                ELSE IF seconds < 10 THEN Say("lessThanXSeconds", 10)
                ELSE IF seconds < 20 THEN Say("lessThanXSeconds", 20)
                ELSE IF seconds < 40 THEN Say("halfAMinute", 0)
                ELSE IF seconds < 60 THEN Say("lessThanXMinutes", 1)
                ELSE Say("xMinutes", 1)
            ELSE IF minutes = 0 THEN Say("lessThanXMinutes", 1)
            ELSE Say("xMinutes", minutes)
        ELSE IF minutes < 45 THEN Say("xMinutes", minutes)
        ELSE IF minutes < 90 THEN Say("aboutXHours", 1)
        ELSE IF minutes < MinutesInDay
            THEN Say("aboutXHours", RoundDiv(minutes, 60))
        ELSE IF minutes < MinutesInAlmostTwoDays THEN Say("xDays", 1)
        ELSE IF minutes < MinutesInMonth
            THEN Say("xDays", RoundDiv(minutes, MinutesInDay))
        ELSE Say("aboutXMonths", RoundDiv(minutes, MinutesInMonth))

\* A slip the unit selection must catch: formatDistanceToNowStrict in the
\* place of formatDistanceToNow (the largest whole unit, no "about").
formatDistanceToNowStrict(date, options, clock, host) ==
    IF date.nan THEN Throw("Invalid time value")
    ELSE LET d == Abs(clock - date.v)
             comparison == IF date.v > clock THEN 1 ELSE -1
             Say(token, count) ==
                 LocaleFormatDistance(token, count, options.addSuffix,
                                      comparison)
         IN  IF d < MsPerMinute THEN Say("xSeconds", RoundDiv(d, 1000))
             ELSE IF d < MsPerHour
                 THEN Say("xMinutes", RoundDiv(d, MsPerMinute))
             ELSE IF d < MsPerDay THEN Say("xHours", RoundDiv(d, MsPerHour))
             ELSE Say("xDays", RoundDiv(d, MsPerDay))

\* date-fns formatDistanceToNow(date, options): against the clock, read now.
formatDistanceToNow(date, options, clock, host) ==
    formatDistance(date, DateOf(clock), options, host)

---------------------------------------------------------------------------
(* The characters of a string: what the tokens of the pattern print for   *)
(* the wall-clock reading, and the words of the en-US locale.             *)

\* The calendar date of a day number (days since 1970-01-01), as the
\* getters of Date give it (ECMAScript YearFromTime, MonthFromTime,
\* DateFromTime), computed for 400-year eras of the Gregorian calendar.
CivilFromDays(days) ==
    LET z == days + 719468
        era == z \div 146097
        doe == z % 146097
        yoe == (doe - doe \div 1460 + doe \div 36524 - doe \div 146096)
                   \div 365
        doy == doe - (365 * yoe + yoe \div 4 - yoe \div 100)
        mp == (5 * doy + 2) \div 153
        d == doy - (153 * mp + 2) \div 5 + 1
        m == IF mp < 10 THEN mp + 3 ELSE mp - 9
    IN  [year |-> yoe + era * 400 + (IF m <= 2 THEN 1 ELSE 0),
         month |-> m, day |-> d]

\* The fields of a wall-clock reading.
TimeFields(wall) ==
    LET civil == CivilFromDays(wall \div MsPerDay)
        msOfDay == wall % MsPerDay
    IN  [year |-> civil.year, month |-> civil.month, day |-> civil.day,
         hour |-> msOfDay \div MsPerHour,
         minute |-> (msOfDay % MsPerHour) \div MsPerMinute]

\* addLeadingZeros(number, 2) and (number, 4)
Pad2(n) == IF n < 10 THEN "0" \o ToString(n) ELSE ToString(n)
Pad4(n) ==
    IF n < 10 THEN "000" \o ToString(n)
    ELSE IF n < 100 THEN "00" \o ToString(n)
    ELSE IF n < 1000 THEN "0" \o ToString(n)
    ELSE ToString(n)

MonthNames ==
    <<"January", "February", "March", "April", "May", "June", "July",
      "August", "September", "October", "November", "December">>

\* The tokens: MM dd yyyy HH mm, and h, a, MMMM, d.
TextOfFields(pattern, f) ==
    LET h == IF f.hour % 12 = 0 THEN 12 ELSE f.hour % 12
        a == IF f.hour < 12 THEN "AM" ELSE "PM"
        hmma == ToString(h) \o ":" \o Pad2(f.minute) \o " " \o a
        us == Pad2(f.month) \o "/" \o Pad2(f.day) \o "/" \o Pad4(f.year)
    IN  CASE pattern = "MM/dd/yyyy" -> us
          [] pattern = "dd.MM.yyyy" ->
                Pad2(f.day) \o "." \o Pad2(f.month) \o "." \o Pad4(f.year)
          [] pattern = "yyyy-MM-dd'T'HH:mm" ->
                Pad4(f.year) \o "-" \o Pad2(f.month) \o "-" \o Pad2(f.day)
                    \o "T" \o Pad2(f.hour) \o ":" \o Pad2(f.minute)
          [] pattern = "MM/dd/yyyy h:mm a" -> us \o " " \o hmma
          [] OTHER ->
                MonthNames[f.month] \o " " \o ToString(f.day) \o ", "
                    \o Pad4(f.year) \o " " \o hmma

\* The en-US locale's formatDistance words.
TextOfDistance(token, count) ==
    LET One(one, other) ==
            IF count = 1 THEN one ELSE ToString(count) \o " " \o other
    IN  CASE token = "lessThanXSeconds" ->
                "less than " \o One("a second", "seconds")
          [] token = "halfAMinute" -> "half a minute"
          [] token = "lessThanXMinutes" ->
                "less than " \o One("a minute", "minutes")
          [] token = "xMinutes" -> One("1 minute", "minutes")
          [] token = "aboutXHours" -> "about " \o One("1 hour", "hours")
          [] token = "xDays" -> One("1 day", "days")
          [] OTHER -> "about " \o One("1 month", "months")

\* The characters of the string a formatter returned.
Text(s) ==
    CASE s.pattern = "relative" ->
            IF s.affix = "in " THEN "in " \o TextOfDistance(s.token, s.count)
            ELSE TextOfDistance(s.token, s.count) \o s.affix
      [] s.pattern \in {"zzz", "zzzz"} -> s.zoneName
      [] s.pattern \in DayPatterns \cup MinutePatterns ->
            TextOfFields(s.pattern, TimeFields(s.wall))
      [] OTHER ->
            TextOfFields("MMMM d, yyyy h:mm a", TimeFields(s.wall))
                \o " " \o s.zoneName

---------------------------------------------------------------------------
(* The formatting transformers.  A factory returns a closure: the record  *)
(* of what the returned function holds on to.  RunClosure is the returned *)
(* function applied to an input, with the clock and the host zone as they *)
(* are at that moment.                                                     *)

Closure(fn, formatString, timeZone, isSeconds, cutoff, options) ==
    [fn |-> fn, formatString |-> formatString, timeZone |-> timeZone,
     isSeconds |-> isSeconds, cutoff |-> cutoff, options |-> options]

getUserTimezone(host) == host

formatDate(formatString, timeZone) ==
    Closure("formatDate", formatString, timeZone, Undefined, UndefinedNum,
            NoOptions)

\* A slip the defaults must catch: the zone passed on as it came, so that a
\* zone left out means the host's.
formatUSDateOfTheHost(timeZone) == formatDate("MM/dd/yyyy", timeZone)

formatUSDate(timeZone) ==
    formatDate("MM/dd/yyyy",
               IF Falsy(timeZone) THEN "America/New_York" ELSE timeZone)

formatEUDate(timeZone) ==
    formatDate("dd.MM.yyyy",
               IF Falsy(timeZone) THEN "Europe/Berlin" ELSE timeZone)

formatDateLocal(formatString, host) ==
    formatDate(IF Falsy(formatString) THEN "MM/dd/yyyy" ELSE formatString,
               getUserTimezone(host))

formatTimestampLocal(formatString, isSeconds) ==
    Closure("formatTimestampLocal", formatString, Undefined, isSeconds,
            UndefinedNum, NoOptions)

formatDateHuman(timeZone, host) ==
    Closure("formatDateHuman", Undefined,
            IF Falsy(timeZone) THEN getUserTimezone(host) ELSE timeZone,
            Undefined, UndefinedNum, NoOptions)

formatDateHumanFull(timeZone, host) ==
    Closure("formatDateHumanFull", Undefined,
            IF Falsy(timeZone) THEN getUserTimezone(host) ELSE timeZone,
            Undefined, UndefinedNum, NoOptions)

formatRelative(options) ==
    Closure("formatRelative", Undefined, Undefined, Undefined, UndefinedNum,
            options)

formatTimestampRelative(isSeconds) ==
    Closure("formatTimestampRelative", Undefined, Undefined, isSeconds,
            UndefinedNum, NoOptions)

formatDateSmart(cutoffDays, timeZone, host) ==
    Closure("formatDateSmart", Undefined,
            IF Falsy(timeZone) THEN getUserTimezone(host) ELSE timeZone,
            Undefined,
            IF FalsyNum(cutoffDays) THEN Num(7) ELSE cutoffDays,
            NoOptions)

\* The bodies of the returned functions.

RunFormatDate(c, date, host) ==
    LET fmt == IF Falsy(c.formatString) THEN "MM/dd/yyyy" ELSE c.formatString
    IN  IF ~Falsy(c.timeZone)
        THEN formatInTimeZone(date, c.timeZone, fmt, host)
        ELSE format(date, fmt, host)

RunFormatTimestampLocal(c, timestamp, host) ==
    LET fmt == IF Falsy(c.formatString) THEN "MM/dd/yyyy h:mm a"
               ELSE c.formatString
        seconds == c.isSeconds = "true"
        date == IF seconds THEN fromUnixTime(timestamp)
                ELSE NewDate(timestamp)
    IN  formatInTimeZone(date, getUserTimezone(host), fmt, host)

RunFormatDateHuman(c, date, host) ==
    Concat(formatInTimeZone(date, c.timeZone, "MMMM d, yyyy h:mm a", host),
           formatInTimeZone(date, c.timeZone, "zzz", host))

RunFormatDateHumanFull(c, date, host) ==
    Concat(formatInTimeZone(date, c.timeZone, "MMMM d, yyyy h:mm a", host),
           formatInTimeZone(date, c.timeZone, "zzzz", host))

RunFormatRelative(c, date, clock, host) ==
    formatDistanceToNow(date, MergeOptions(c.options), clock, host)

\* A slip the claims must notice: the timestamp always read as
\* milliseconds.
RunFormatTimestampRelativeOfMillis(c, timestamp, clock, host) ==
    RunFormatRelative(formatRelative(NoOptions), NewDate(timestamp), clock,
                      host)

RunFormatTimestampRelative(c, timestamp, clock, host) ==
    LET seconds == c.isSeconds = "true"
        date == IF seconds THEN fromUnixTime(timestamp)
                ELSE NewDate(timestamp)
    IN  RunFormatRelative(formatRelative(NoOptions), date, clock, host)

\* formatDateSmart's returned function, first half: `now` is sampled and
\* the branch is chosen.  NaN <= cutoff is false.
SmartBranch(c, date, sampled) ==
    IF ~date.nan /\ Abs(sampled - date.v) <= c.cutoff.v * MsPerDay
    THEN "relative" ELSE "human"

\* Second half: the chosen formatter runs; formatRelative reads the clock
\* again.
SmartResult(c, date, branch, clock, host) ==
    IF branch = "relative"
    THEN RunFormatRelative(formatRelative(NoOptions), date, clock, host)
    ELSE RunFormatDateHuman(formatDateHuman(c.timeZone, host), date, host)

RunClosure(c, input, clock, host) ==
    CASE c.fn = "formatDate" -> RunFormatDate(c, input, host)
      [] c.fn = "formatTimestampLocal" ->
            RunFormatTimestampLocal(c, input, host)
      [] c.fn = "formatDateHuman" -> RunFormatDateHuman(c, input, host)
      [] c.fn = "formatDateHumanFull" ->
            RunFormatDateHumanFull(c, input, host)
      [] c.fn = "formatRelative" -> RunFormatRelative(c, input, clock, host)
      [] c.fn = "formatTimestampRelative" ->
            RunFormatTimestampRelative(c, input, clock, host)

---------------------------------------------------------------------------
(* The values the clients of the model pass in *)

\* Instants next to the transitions of the zones, on a half-hour grid, and
\* instants next to the epoch that are no whole seconds.
SampleDays == {3, 4, 5, 6, 7, 10, 11, 12, 13, 14}
SampleHalfHours == {2, 3, 11, 13, 15, 24}
SampleInstants ==
    {d * MsPerDay + h * (MsPerHour \div 2) :
        d \in SampleDays, h \in SampleHalfHours}
    \cup {-2000, -1500, -1, 0, 1, 1500}

InputDates == {DateOf(t) : t \in SampleInstants} \cup {InvalidDate}

\* Timestamps: around the epoch and at both ends of the range, in
\* milliseconds and in seconds.
SampleTimestamps ==
    {-2000, -1500, -1001, -1000, -999, -2, -1, 0, 1, 2, 999, 1000, 1500,
     MaxTimeValue \div 1000, MaxTimeValue \div 1000 + 1,
     -(MaxTimeValue \div 1000), -(MaxTimeValue \div 1000) - 1,
     MaxTimeValue, MaxTimeValue + 1, -MaxTimeValue, -MaxTimeValue - 1}

InputNumbers == {Num(i) : i \in SampleTimestamps}

\* Strings: the epoch, an instant before it that is no whole second, an
\* instant in the daylight time of the zones, both ends of the range and
\* the day after it, a year beyond every Date, a month that does not
\* exist, and a text that is no date.
InputStrings ==
    {Iso(1970, 1, 1, 0, 0, 0, 0),
     Iso(1969, 12, 31, 23, 59, 58, 500),
     Iso(1970, 1, 6, 7, 0, 0, 0),
     Iso(1970, 1, 1 + MaxDays, 0, 0, 0, 0),
     Iso(1970, 1, 1 + MaxDays, 0, 0, 0, 1),
     Iso(1969, 12, 32 - MaxDays, 0, 0, 0, 0),
     Iso(275761, 1, 1, 0, 0, 0, 0),
     Iso(1970, 13, 1, 0, 0, 0, 0),
     NotADate}

\* A boolean result.
Bool(b) == [kind |-> "boolean", nan |-> FALSE, v |-> b]

Shifts == (-MaxShift) .. MaxShift

NoCall == [op |-> "none"]
NoDate == [kind |-> "none"]
NoTasks == <<>>
NoXf == [factory |-> "none"]
Idle == [pc |-> "idle"]

\* The clock starts in the middle of the window and advances by a
\* millisecond or by an hour.
Now0 == 10 * MsPerDay
TickSteps == {1, MsPerHour}
TicksTaken == ((now - Now0) \div MsPerHour) + ((now - Now0) % MsPerHour)

\* Dates around the start of the clock: up to ten days before and after
\* it, on both sides of the cutoffs of 1, 3 and 7 days.
SampleOffsets ==
    {-10 * MsPerDay, -7 * MsPerDay - 1, -7 * MsPerDay, -5 * MsPerDay,
     -3 * MsPerDay, -2 * MsPerDay, -MsPerDay - 1, -MsPerDay,
     -2 * MsPerHour, -1, 0, 2 * MsPerHour, MsPerDay, 2 * MsPerDay,
     7 * MsPerDay, 10 * MsPerDay}

\* Dates an hour before and an hour after the transitions of the zones;
\* among them are readings that fall into the gap of another zone.
Transitions ==
    {ZoneRules(z).dstStart : z \in TimezoneIds}
        \cup {ZoneRules(z).dstEnd : z \in TimezoneIds}
TransitionDates ==
    {DateOf(t + d) : t \in Transitions \ {0}, d \in {-MsPerHour, MsPerHour}}

\* Dates seconds and minutes away from the start of the clock.
NearDates ==
    {DateOf(Now0 + o) :
        o \in {-10 * 1000, -45 * MsPerMinute, 45 * MsPerMinute}}

\* The dates the relative and the smart formatters are applied to ...
SmartDates == {DateOf(Now0 + o) : o \in SampleOffsets} \cup {InvalidDate}
RelativeDates == SmartDates \cup NearDates
\* ... and the dates the formatters of a wall clock are applied to.
ZonedDates ==
    TransitionDates \cup {DateOf(0), DateOf(Now0), InvalidDate}

FormatDates == RelativeDates \cup ZonedDates

\* Timestamps two hours before the start of the clock, in milliseconds and
\* in seconds, the epoch, and one out of the range.
FormatTimestamps ==
    {Num(Now0 - 2 * MsPerHour), Num((Now0 - 2 * MsPerHour) \div 1000),
     Num(0), Num(MaxTimeValue + 1)}

\* Zone arguments: the zones the host knows, one it does not know, the
\* empty string, and the argument left out.
ZoneArgs == TimezoneIds \cup {"Mars/Phobos", "", Undefined}
SmartZoneArgs == {"Mars/Phobos", Undefined}
\* What the host reports as its zone: a zone, or nothing (an engine whose
\* Intl has no timeZone in resolvedOptions()).
HostZones == TimezoneIds \cup {Undefined}
FormatArgs == {Undefined, "yyyy-MM-dd'T'HH:mm"}
CutoffArgs == {UndefinedNum, Num(0), Num(1), Num(3), Num(7)}
IsSecondsArgs == {Undefined, "true", "false"}
OptionsArgs ==
    {NoOptions,
     [given |-> TRUE, hasAddSuffix |-> TRUE, addSuffix |-> "false",
      includeSeconds |-> FALSE],
     [given |-> TRUE, hasAddSuffix |-> TRUE, addSuffix |-> "true",
      includeSeconds |-> FALSE],
     [given |-> TRUE, hasAddSuffix |-> TRUE, addSuffix |-> Undefined,
      includeSeconds |-> FALSE],
     [given |-> TRUE, hasAddSuffix |-> FALSE, addSuffix |-> Undefined,
      includeSeconds |-> FALSE],
     [given |-> TRUE, hasAddSuffix |-> FALSE, addSuffix |-> Undefined,
      includeSeconds |-> TRUE]}

---------------------------------------------------------------------------
(* SpecConv: a client pipes a value through the conversions and the day    *)
(* arithmetic, on a host whose zone is any of the modelled ones.           *)

ConvInit ==
    /\ now = 0
    /\ hostTimeZone \in TimezoneIds
    /\ xf = NoXf
    /\ smart = Idle
    /\ cur \in InputDates \cup InputNumbers \cup InputStrings
    /\ call = NoCall
    /\ prev = NoCall
    /\ steps = 0
    /\ dateObj = NoDate
    /\ tasks = NoTasks

\* One transformer applied to the value in hand.
Applied(op, days, result) ==
    /\ steps < MaxSteps
    /\ call' = [op |-> op, days |-> days, input |-> cur, result |-> result]
    /\ prev' = call
    /\ cur' = result
    /\ steps' = steps + 1
    /\ UNCHANGED <<now, hostTimeZone, xf, smart, dateObj, tasks>>

ToUnixTimestamp ==
    /\ cur.kind = "Date"
    /\ Applied("toUnixTimestamp", 0, toUnixTimestamp(cur))

ToUnixTimestampSeconds ==
    /\ cur.kind = "Date"
    /\ Applied("toUnixTimestampSeconds", 0, toUnixTimestampSeconds(cur))

FromUnixTimestamp ==
    /\ cur.kind = "number"
    /\ Applied("fromUnixTimestamp", 0, fromUnixTimestamp(cur))

FromUnixTimestampSeconds ==
    /\ cur.kind = "number"
    /\ Applied("fromUnixTimestampSeconds", 0, fromUnixTimestampSeconds(cur))

IsoDateToLocal ==
    /\ cur.kind = "string"
    /\ Applied("isoDateToLocal", 0, isoDateToLocal(cur))

IsValidDate ==
    /\ cur.kind = "Date"
    /\ Applied("isValidDate", 0, Bool(isValidDate(cur)))

AddDays(days) ==
    /\ cur.kind = "Date"
    /\ Applied("addDays", days, addDays(days, cur, hostTimeZone))

SubtractDays(days) ==
    /\ cur.kind = "Date"
    /\ Applied("subtractDays", days, subtractDays(days, cur, hostTimeZone))

ConvNext ==
    \/ ToUnixTimestamp
    \/ ToUnixTimestampSeconds
    \/ FromUnixTimestamp
    \/ FromUnixTimestampSeconds
    \/ IsoDateToLocal
    \/ IsValidDate
    \/ \E days \in Shifts : AddDays(days)
    \/ \E days \in Shifts : SubtractDays(days)

SpecConv == ConvInit /\ [][ConvNext]_vars

\* The value the pipeline started from was passed through `call` and the
\* call before it.
Chained == prev.op # "none" /\ call.op # "none" /\ call.input = prev.result

---------------------------------------------------------------------------
(* Spec: a client creates formatting transformers and applies them, while  *)
(* the host's clock advances and the host's zone is changed.  `call` is    *)
(* the application that has just returned: the clock and the zone of the   *)
(* state are then those the application ran under.                         *)

Init ==
    /\ now = Now0
    /\ hostTimeZone \in HostZones
    /\ xf = NoXf
    /\ call = NoCall
    /\ smart = Idle
    /\ cur = Num(0)
    /\ prev = NoCall
    /\ steps = 0
    /\ dateObj = NoDate
    /\ tasks = NoTasks

\* The clock advances.
Tick(step) ==
    /\ TicksTaken < MaxTicks
    /\ now' = now + step
    /\ call' = NoCall
    /\ UNCHANGED <<hostTimeZone, xf, smart, cur, prev, steps, dateObj, tasks>>

\* The host's zone is changed (TZ is set, the user travels).
SetTimeZone(zone) ==
    /\ zone # hostTimeZone
    /\ hostTimeZone' = zone
    /\ call' = NoCall
    /\ UNCHANGED <<now, xf, smart, cur, prev, steps, dateObj, tasks>>

\* A factory has returned a transformer.
Created(factory, zoneArg, cutoffArg, closure) ==
    /\ smart.pc = "idle"
    /\ xf' = [factory |-> factory, zoneArg |-> zoneArg,
              cutoffArg |-> cutoffArg, closure |-> closure]
    /\ call' = NoCall
    /\ UNCHANGED <<now, hostTimeZone, smart, cur, prev, steps, dateObj,
                   tasks>>

CreateFormatDate(formatString, timeZone) ==
    /\ Created("formatDate", timeZone, UndefinedNum,
               formatDate(formatString, timeZone))

CreateFormatUSDate(timeZone) ==
    /\ Created("formatUSDate", timeZone, UndefinedNum, formatUSDate(timeZone))

CreateFormatEUDate(timeZone) ==
    /\ Created("formatEUDate", timeZone, UndefinedNum, formatEUDate(timeZone))

CreateFormatDateLocal(formatString) ==
    /\ Created("formatDateLocal", Undefined, UndefinedNum,
               formatDateLocal(formatString, hostTimeZone))

CreateFormatTimestampLocal(formatString, isSeconds) ==
    /\ Created("formatTimestampLocal", Undefined, UndefinedNum,
               formatTimestampLocal(formatString, isSeconds))

CreateFormatDateHuman(timeZone) ==
    /\ Created("formatDateHuman", timeZone, UndefinedNum,
               formatDateHuman(timeZone, hostTimeZone))

CreateFormatDateHumanFull(timeZone) ==
    /\ Created("formatDateHumanFull", timeZone, UndefinedNum,
               formatDateHumanFull(timeZone, hostTimeZone))

CreateFormatRelative(options) ==
    /\ Created("formatRelative", Undefined, UndefinedNum,
               formatRelative(options))

CreateFormatTimestampRelative(isSeconds) ==
    /\ Created("formatTimestampRelative", Undefined, UndefinedNum,
               formatTimestampRelative(isSeconds))

CreateFormatDateSmart(cutoffDays, timeZone) ==
    /\ Created("formatDateSmart", timeZone, cutoffDays,
               formatDateSmart(cutoffDays, timeZone, hostTimeZone))

\* getUserTimezone() is called and returns.
GetUserTimezone ==
    /\ smart.pc = "idle"
    /\ call' = [op |-> "getUserTimezone",
                result |-> getUserTimezone(hostTimeZone)]
    /\ UNCHANGED <<now, hostTimeZone, xf, smart, cur, prev, steps, dateObj,
                   tasks>>

TakesTimestamp(c) ==
    c.fn \in {"formatTimestampLocal", "formatTimestampRelative"}

\* The inputs a transformer is applied to.
InputsOf(c) ==
    IF TakesTimestamp(c) THEN FormatTimestamps
    ELSE IF c.fn = "formatRelative" THEN RelativeDates
    ELSE ZonedDates

Returned(input, result, nowDecision, branch) ==
    call' = [op |-> xf.factory, xf |-> xf, input |-> input,
             result |-> result, nowDecision |-> nowDecision,
             nowPhrase |-> now, branch |-> branch]

\* The transformer is applied to an input and returns (or throws).
Apply(input) ==
    /\ xf # NoXf
    /\ smart.pc = "idle"
    /\ xf.closure.fn # "formatDateSmart"
    /\ input \in InputsOf(xf.closure)
    /\ Returned(input, RunClosure(xf.closure, input, now, hostTimeZone),
                now, "")
    /\ UNCHANGED <<now, hostTimeZone, xf, smart, cur, prev, steps, dateObj,
                   tasks>>

\* A formatDateSmart transformer is applied: it samples the clock and
\* chooses its branch ...
SmartBegin(date) ==
    /\ xf # NoXf
    /\ smart.pc = "idle"
    /\ xf.closure.fn = "formatDateSmart"
    /\ smart' = [pc |-> "chosen", date |-> date, sampled |-> now,
                 branch |-> SmartBranch(xf.closure, date, now)]
    /\ call' = NoCall
    /\ UNCHANGED <<now, hostTimeZone, xf, cur, prev, steps, dateObj, tasks>>

\* ... and runs the formatter it chose, which returns.
SmartFinish ==
    /\ smart.pc = "chosen"
    /\ Returned(smart.date,
                SmartResult(xf.closure, smart.date, smart.branch, now,
                            hostTimeZone),
                smart.sampled, smart.branch)
    /\ smart' = Idle
    /\ UNCHANGED <<now, hostTimeZone, xf, cur, prev, steps, dateObj, tasks>>

Next ==
    \/ \E step \in TickSteps : Tick(step)
    \/ \E zone \in HostZones : SetTimeZone(zone)
    \/ GetUserTimezone
    \/ \E f \in FormatArgs, z \in ZoneArgs : CreateFormatDate(f, z)
    \/ \E z \in ZoneArgs : CreateFormatUSDate(z)
    \/ \E z \in ZoneArgs : CreateFormatEUDate(z)
    \/ \E f \in FormatArgs : CreateFormatDateLocal(f)
    \/ \E f \in FormatArgs, i \in IsSecondsArgs :
            CreateFormatTimestampLocal(f, i)
    \/ \E z \in ZoneArgs : CreateFormatDateHuman(z)
    \/ \E z \in ZoneArgs : CreateFormatDateHumanFull(z)
    \/ \E o \in OptionsArgs : CreateFormatRelative(o)
    \/ \E i \in IsSecondsArgs : CreateFormatTimestampRelative(i)
    \/ \E c \in CutoffArgs, z \in SmartZoneArgs : CreateFormatDateSmart(c, z)
    \/ \E input \in FormatDates \cup FormatTimestamps : Apply(input)
    \/ \E date \in SmartDates : SmartBegin(date)
    \/ SmartFinish

Spec == Init /\ [][Next]_vars

---------------------------------------------------------------------------
(* SpecTasks: several callers hold the same Date object and call the       *)
(* transformers on it, in any order, while the clock and the host's zone   *)
(* stay as they are.  A call runs to its end before the next one starts   *)
(* (the transformers are synchronous).  The module has no variable of its *)
(* own: what a call can leave behind for the next is the Date object.     *)

TaskIds == 1 .. MaxTasks

TaskDates == {DateOf(0), DateOf(Now0 - 2 * MsPerHour), InvalidDate}

\* What a call leaves of the Date object it was given, and what it returns.
Effect(obj, result) == [obj |-> obj, result |-> result]

\* A slip the callers must notice: setDate on the argument itself.
fnsAddDaysInPlace(obj, amount, zone) ==
    Effect(fnsAddDays(obj, amount, zone), fnsAddDays(obj, amount, zone))

\* date-fns addDays clones its argument (toDate) and moves the clone.
fnsAddDaysOn(obj, amount, zone) ==
    Effect(obj, fnsAddDays(obj, amount, zone))

\* A slip the callers must notice: the fields set on the argument itself.
fromZonedTimeInPlace(obj, timeZone, host) ==
    Effect(fromZonedTime(obj, timeZone, host),
           fromZonedTime(obj, timeZone, host))

\* date-fns-tz fromZonedTime and toZonedTime clone their argument (toDate)
\* and build the result as a new Date.
fromZonedTimeOn(obj, timeZone, host) ==
    Effect(obj, fromZonedTime(obj, timeZone, host))

toZonedTimeOn(obj, timeZone, host) ==
    Effect(obj, toZonedTime(obj, timeZone, host))

ShiftOps == {"addDays", "subtractDays"}
\* toUtc and fromUtc, made for the zone of New York.
ConvertOps == {"toUtc", "fromUtc"}
ReadOps ==
    {"toUnixTimestamp", "toUnixTimestampSeconds", "isValidDate",
     "formatDate", "formatDateHuman", "formatRelative", "formatDateSmart"}

\* One call of a transformer on the Date object.
Invoke(op, days, obj, clock, host) ==
    CASE op = "addDays" -> fnsAddDaysOn(obj, days, host)
      [] op = "subtractDays" -> fnsAddDaysOn(obj, -days, host)
      [] op = "toUtc" -> fromZonedTimeOn(obj, "America/New_York", host)
      [] op = "fromUtc" -> toZonedTimeOn(obj, "America/New_York", host)
      [] op = "toUnixTimestamp" -> Effect(obj, toUnixTimestamp(obj))
      [] op = "toUnixTimestampSeconds" ->
            Effect(obj, toUnixTimestampSeconds(obj))
      [] op = "isValidDate" -> Effect(obj, Bool(isValidDate(obj)))
      [] op = "formatDate" ->
            Effect(obj, RunClosure(formatDate(Undefined, "Europe/Berlin"),
                                   obj, clock, host))
      [] op = "formatDateHuman" ->
            Effect(obj, RunClosure(formatDateHuman(Undefined, host), obj,
                                   clock, host))
      [] op = "formatRelative" ->
            Effect(obj, RunClosure(formatRelative(NoOptions), obj, clock,
                                   host))
      [] op = "formatDateSmart" ->
            LET c == formatDateSmart(UndefinedNum, Undefined, host)
            IN  Effect(obj, SmartResult(c, obj, SmartBranch(c, obj, clock),
                                        clock, host))

TasksInit ==
    /\ now = Now0
    /\ hostTimeZone \in TimezoneIds
    /\ xf = NoXf
    /\ call = NoCall
    /\ smart = Idle
    /\ cur \in TaskDates
    /\ prev = NoCall
    /\ steps = 0
    /\ dateObj = cur
    /\ tasks = [t \in TaskIds |-> [pc |-> "idle"]]

\* Caller t makes its call, which returns.
TaskCalls(t, op, days) ==
    /\ tasks[t].pc = "idle"
    /\ LET e == Invoke(op, days, dateObj, now, hostTimeZone)
       IN  /\ dateObj' = e.obj
           /\ tasks' = [tasks EXCEPT ![t] =
                            [pc |-> "returned", op |-> op, days |-> days,
                             result |-> e.result]]
    /\ UNCHANGED <<now, hostTimeZone, xf, call, smart, cur, prev, steps>>

TaskShifts(t, op, days) == op \in ShiftOps /\ TaskCalls(t, op, days)

TaskReads(t, op) == op \in ReadOps /\ TaskCalls(t, op, 0)

\* toUtc and fromUtc are called on valid Dates.
TaskConverts(t, op) ==
    op \in ConvertOps /\ ~dateObj.nan /\ TaskCalls(t, op, 0)

TasksNext ==
    \/ \E t \in TaskIds, op \in ShiftOps, days \in Shifts :
            TaskShifts(t, op, days)
    \/ \E t \in TaskIds, op \in ReadOps : TaskReads(t, op)
    \/ \E t \in TaskIds, op \in ConvertOps : TaskConverts(t, op)

SpecTasks == TasksInit /\ [][TasksNext]_vars

---------------------------------------------------------------------------
(* ISO strings of Dates *)

\* Date.prototype.toISOString of a valid Date: the ISO 8601 string that
\* spells out the instant.
toISOString(date) ==
    LET f == TimeFields(date.v)
    IN  Iso(f.year, f.month, f.day, f.hour, f.minute,
            (date.v % MsPerMinute) \div 1000, date.v % 1000)

---------------------------------------------------------------------------
(* SpecData: the transformers of objects, strings and arrays.  A client    *)
(* makes a call on a value of its own; the call that has returned is in    *)
(* `call`.                                                                  *)

\* Objects are functions from their own keys to their values.  The keys
\* are plain names (no '.' and no '['), so that a lodash path is one key:
\* _.has is `own key`, _.get a read, _.set a write, _.unset a delete.
Keys == {"a", "b", "c"}
has(obj, key) == key \in DOMAIN obj
get(obj, key) == obj[key]
set(obj, key, value) ==
    [k \in DOMAIN obj \cup {key} |-> IF k = key THEN value ELSE obj[k]]
unset(obj, key) == [k \in DOMAIN obj \ {key} |-> obj[k]]

\* A fieldMap is the sequence of its entries <<oldKey, newKey>>, in the
\* order Object.entries lists them (the order they were written in).
OldKey(entry) == entry[1]
NewKey(entry) == entry[2]

\* The forEach of renameFields from entry i on: the value is read from obj,
\* written to and deleted from result.
RECURSIVE RenameEntries(_, _, _, _)
RenameEntries(fieldMap, obj, result, i) ==
    IF i > Len(fieldMap) THEN result
    ELSE LET oldKey == OldKey(fieldMap[i])
             newKey == NewKey(fieldMap[i])
         IN  IF has(obj, oldKey)
             THEN RenameEntries(fieldMap, obj,
                                unset(set(result, newKey, get(obj, oldKey)),
                                      oldKey),
                                i + 1)
             ELSE RenameEntries(fieldMap, obj, result, i + 1)

\* renameFields(fieldMap)(obj): the entries are applied to a shallow copy.
renameFields(fieldMap, obj) == RenameEntries(fieldMap, obj, obj, 1)

\* The objects and the fieldMaps of the clients: every object over the
\* keys with two values, every fieldMap of up to MaxFields entries.
FieldValues == {1, 2}
Objects == UNION {[ks -> FieldValues] : ks \in SUBSET Keys}
FieldMapsOf(n) ==
    {fm \in [1 .. n -> Keys \X (Keys \cup {"d"})] :
        \A i, j \in 1 .. n : i # j => OldKey(fm[i]) # OldKey(fm[j])}
FieldMaps == UNION {FieldMapsOf(n) : n \in 0 .. MaxFields}

\* Strings are sequences of symbols (code points).  One symbol of the
\* alphabet is astral: it takes two UTF-16 units, the others take one.
Astral == "U+1F600"
UnitsOf(symbol) == IF symbol = Astral THEN 2 ELSE 1

\* str.length: the number of UTF-16 units.
RECURSIVE StringLength(_)
StringLength(str) ==
    IF str = <<>> THEN 0 ELSE UnitsOf(Head(str)) + StringLength(Tail(str))

\* lodash hasUnicode and stringSize: a string with an astral symbol is
\* measured in symbols, any other string by its length.
hasUnicode(str) == \E i \in 1 .. Len(str) : str[i] = Astral
stringSize(str) == IF hasUnicode(str) THEN Len(str) ELSE StringLength(str)

Omission == <<".", ".", ".">>

\* A slip the claims must notice: a cut at maxLength, nothing appended.
truncateWithoutOmission(maxLength, str) ==
    IF maxLength >= stringSize(str) THEN str ELSE SubSeq(str, 1, maxLength)

\* truncate(maxLength)(str) = _.truncate(str, { length: maxLength }): the
\* string as it is when it is short enough, else its first symbols and the
\* omission, and the omission alone when no symbol fits before it.
truncate(maxLength, str) ==
    LET strLength == stringSize(str)
        end == maxLength - stringSize(Omission)
    IN  IF maxLength >= strLength THEN str
        ELSE IF end < 1 THEN Omission
        ELSE SubSeq(str, 1, end) \o Omission

\* The strings of the clients: up to MaxLen symbols, and lengths to
\* truncate to from none to one more than that.
TruncateSymbols == {"a", "b", Astral}
TruncateStrings == UNION {[1 .. n -> TruncateSymbols] : n \in 0 .. MaxLen}
TruncateLengths == 0 .. MaxLen + 1

\* The characters of names: a letter in its two cases and the space.
toUpperCaseOf(ch) == IF ch = "a" THEN "A" ELSE ch
toLowerCaseOf(ch) == IF ch = "A" THEN "a" ELSE ch

\* String.prototype.toLowerCase
toLowerCase(str) == [i \in 1 .. Len(str) |-> toLowerCaseOf(str[i])]

\* capitalize(str): the first character in upper case, the rest as it is.
capitalize(str) ==
    IF Len(str) = 0 THEN str
    ELSE <<toUpperCaseOf(str[1])>> \o SubSeq(str, 2, Len(str))

\* str.split(' '): the pieces between the spaces, empty pieces included.
RECURSIVE split(_)
split(str) ==
    IF \A i \in 1 .. Len(str) : str[i] # " " THEN <<str>>
    ELSE LET first == CHOOSE i \in 1 .. Len(str) :
                          /\ str[i] = " "
                          /\ \A j \in 1 .. i - 1 : str[j] # " "
         IN  <<SubSeq(str, 1, first - 1)>>
                 \o split(SubSeq(str, first + 1, Len(str)))

\* A slip the claims must notice: only the first piece is kept.
firstOf(parts) == IF parts = <<>> THEN <<>> ELSE parts[1]

\* parts.join(' ')
RECURSIVE join(_)
join(parts) ==
    IF parts = <<>> THEN <<>>
    ELSE IF Len(parts) = 1 THEN parts[1]
    ELSE parts[1] \o <<" ">> \o join(Tail(parts))

\* userAdapter.toUi
toUi(apiUser) ==
    [id |-> apiUser.id,
     displayName |-> capitalize(apiUser.first_name) \o <<" ">>
                        \o capitalize(apiUser.last_name),
     email |-> apiUser.email,
     joinedDate |-> isoDateToLocal(apiUser.created_at),
     isActive |-> apiUser.is_active]

\* userAdapter.toApi; toISOString throws a RangeError on an Invalid Date.
toApi(uiUser) ==
    LET pieces == split(uiUser.displayName)
        firstName == pieces[1]
        lastNameParts == Tail(pieces)
    IN  IF uiUser.joinedDate.nan
        THEN Throw("Invalid time value")
        ELSE [id |-> uiUser.id,
              first_name |-> toLowerCase(firstName),
              last_name |-> toLowerCase(join(lastNameParts)),
              email |-> uiUser.email,
              created_at |-> toISOString(uiUser.joinedDate),
              is_active |-> uiUser.isActive]

\* The API records of the clients: names of up to MaxName characters.
NameSymbols == {"a", "A", " "}
Names == UNION {[1 .. n -> NameSymbols] : n \in 0 .. MaxName}
CreatedAts ==
    {Iso(1970, 1, 1, 0, 0, 0, 0), Iso(1969, 12, 31, 23, 59, 58, 500),
     NotADate}
ApiUsers ==
    {[id |-> "123", first_name |-> first, last_name |-> last,
      email |-> "john.doe@example.com", created_at |-> created,
      is_active |-> active] :
        first \in Names, last \in Names, created \in CreatedAts,
        active \in BOOLEAN}

\* Arrays are sequences.  The iteratee of the clients reads the age of an
\* item, a whole number.
iteratee(item) == item.age

\* A slip the claims must notice: items of equal value in reverse order.
sortByLastFirst(items) ==
    LET n == Len(items)
        Before(j, k) ==
            \/ iteratee(items[j]) < iteratee(items[k])
            \/ iteratee(items[j]) = iteratee(items[k]) /\ j > k
        Rank(k) == Cardinality({j \in 1 .. n : Before(j, k)})
    IN  [r \in 1 .. n |-> items[CHOOSE k \in 1 .. n : Rank(k) = r - 1]]

\* _.sortBy(items, iteratee): a new array, in ascending order of the
\* iteratee's values; items of equal value are compared by their index.
sortBy(items) ==
    LET n == Len(items)
        Before(j, k) ==
            \/ iteratee(items[j]) < iteratee(items[k])
            \/ iteratee(items[j]) = iteratee(items[k]) /\ j < k
        Rank(k) == Cardinality({j \in 1 .. n : Before(j, k)})
    IN  [r \in 1 .. n |-> items[CHOOSE k \in 1 .. n : Rank(k) = r - 1]]

\* Array.prototype.reverse
reverse(array) == [i \in 1 .. Len(array) |-> array[Len(array) + 1 - i]]

\* sortItems(iteratee, ascending)(items): what is left of items and what
\* is returned.  ascending left out is true; reverse works on the new
\* array.
sortItems(ascending, items) ==
    LET sorted == sortBy(items)
    IN  Effect(items,
               IF ascending = Undefined \/ ascending = "true" THEN sorted
               ELSE reverse(sorted))

\* The arrays of the clients: up to MaxItems items, with equal ages and
\* with the same item twice among them.
Items == {[name |-> name, age |-> age] : name \in {"x", "y"}, age \in {1, 2}}
Arrays == UNION {[1 .. n -> Items] : n \in 0 .. MaxItems}
AscendingArgs == {Undefined, "true", "false"}

\* The values of the objects that are merged: numbers, undefined, and
\* plain objects of such values.
Prim(n) == [t |-> "number", n |-> n, o |-> <<>>]
Undef == [t |-> "undefined", n |-> 0, o |-> <<>>]
Obj(o) == [t |-> "object", n |-> 0, o |-> o]
isObject(value) == value.t = "object"

\* _.defaults(object, ...sources), one source: a key of the source is
\* assigned where the object's value is undefined (the key missing or its
\* value undefined).
assignDefaults(object, source) ==
    [k \in DOMAIN object \cup DOMAIN source |->
        IF has(source, k) /\ (~has(object, k) \/ get(object, k) = Undef)
        THEN get(source, k)
        ELSE get(object, k)]

RECURSIVE defaults(_, _)
defaults(object, sources) ==
    IF sources = <<>> THEN object
    ELSE defaults(assignDefaults(object, Head(sources)), Tail(sources))

\* _.merge(object, ...sources), one source (lodash baseMerge): a plain
\* object is merged into the object's own value for the key, or into a new
\* object when that is none (baseMergeDeep); any other value is assigned,
\* except that undefined is assigned only to a key the object lacks
\* (assignMergeValue).
RECURSIVE baseMerge(_, _)
baseMerge(object, source) ==
    [k \in DOMAIN object \cup DOMAIN source |->
        IF ~has(source, k) THEN get(object, k)
        ELSE LET srcValue == get(source, k)
             IN  IF isObject(srcValue)
                 THEN Obj(baseMerge(IF has(object, k)
                                       /\ isObject(get(object, k))
                                    THEN get(object, k).o ELSE <<>>,
                                    srcValue.o))
                 ELSE IF srcValue # Undef THEN srcValue
                 ELSE IF has(object, k) THEN get(object, k)
                 ELSE Undef]

RECURSIVE merge(_, _)
merge(object, sources) ==
    IF sources = <<>> THEN object
    ELSE merge(baseMerge(object, Head(sources)), Tail(sources))

\* What a call leaves of its target and of its sources, and what it
\* returns.
Merged(target, sources, result) ==
    [target |-> target, sources |-> sources, result |-> result]

\* A slip the claims must notice: the target itself is the destination.
mergeObjectsIntoTarget(override, sources, target) ==
    LET result == IF override THEN merge(target, sources)
                  ELSE defaults(target, sources)
    IN  Merged(result, sources, result)

\* mergeObjects(override, ...sources)(target): the destination is a new
\* empty object, target is the first object merged into it.
mergeObjects(override, sources, target) ==
    Merged(target, sources,
           IF override THEN merge(<<>>, <<target>> \o sources)
           ELSE defaults(<<>>, <<target>> \o sources))

\* The objects that are merged: key a with any of the values or without
\* it, key b with a number or without it; up to MaxSources sources.
NestedObjects ==
    {[x |-> Prim(1)], [x |-> Prim(2), y |-> Prim(2)], [y |-> Undef]}
MergeValues ==
    {Prim(1), Prim(2), Undef} \cup {Obj(o) : o \in NestedObjects}
MergeObjectsOfA == {<<>>} \cup {[a |-> v] : v \in MergeValues}
MergeTargets ==
    MergeObjectsOfA \cup {set(obj, "b", Prim(1)) : obj \in MergeObjectsOfA}
MergeSources == UNION {[1 .. n -> MergeTargets] : n \in 0 .. MaxSources}

DataInit ==
    /\ now = Now0
    /\ hostTimeZone = "UTC"
    /\ xf = NoXf
    /\ call = NoCall
    /\ smart = Idle
    /\ cur = NoDate
    /\ prev = NoCall
    /\ steps = 0
    /\ dateObj = NoDate
    /\ tasks = NoTasks

\* The client makes its call, which returns.
DataReturned(op, arg, input, result) ==
    /\ call = NoCall
    /\ call' = [op |-> op, arg |-> arg, input |-> input, result |-> result]
    /\ UNCHANGED <<now, hostTimeZone, xf, smart, cur, prev, steps, dateObj,
                   tasks>>

RenameFields(fieldMap, obj) ==
    DataReturned("renameFields", fieldMap, obj, renameFields(fieldMap, obj))

Truncate(maxLength, str) ==
    DataReturned("truncate", maxLength, str, truncate(maxLength, str))

ToUi(apiUser) == DataReturned("toUi", <<>>, apiUser, toUi(apiUser))

\* The UI record that toUi has returned is sent back through toApi.
ToApi ==
    /\ call.op = "toUi"
    /\ prev' = call
    /\ call' = [op |-> "toApi", arg |-> <<>>, input |-> call.result,
                result |-> toApi(call.result)]
    /\ UNCHANGED <<now, hostTimeZone, xf, smart, cur, steps, dateObj, tasks>>

SortItems(ascending, items) ==
    DataReturned("sortItems", ascending, items, sortItems(ascending, items))

MergeObjects(override, sources, target) ==
    DataReturned("mergeObjects", [override |-> override, sources |-> sources],
                 target, mergeObjects(override, sources, target))

\* The client makes one call; what toUi returns may go on through toApi.
DataNext ==
    \/ /\ call = NoCall
       /\ \E fieldMap \in FieldMaps, obj \in Objects :
                RenameFields(fieldMap, obj)
    \/ /\ call = NoCall
       /\ \E maxLength \in TruncateLengths, str \in TruncateStrings :
                Truncate(maxLength, str)
    \/ /\ call = NoCall
       /\ \E apiUser \in ApiUsers : ToUi(apiUser)
    \/ /\ call = NoCall
       /\ \E ascending \in AscendingArgs, items \in Arrays :
                SortItems(ascending, items)
    \/ /\ call = NoCall
       /\ \E override \in BOOLEAN, sources \in MergeSources,
             target \in MergeTargets :
                MergeObjects(override, sources, target)
    \/ ToApi

SpecData == DataInit /\ [][DataNext]_vars

---------------------------------------------------------------------------
(* Claims about the conversions and the day arithmetic (under SpecConv) *)

\* C1: addDays is pure elapsed-time shifting: for every valid instant x and
\* every integer n, in every host zone, the result is valid and
\* toUnixTimestamp(addDays(n)(x)) = toUnixTimestamp(x) + n * 86400000.
C1_AddDaysIsElapsedShift ==
    (call.op = "addDays" /\ ~call.input.nan)
        => /\ ~call.result.nan
           /\ toUnixTimestamp(call.result).v
                = toUnixTimestamp(call.input).v + call.days * MsPerDay

\* C2: subtractDays(n)(addDays(n)(x)) is the instant x, for every valid x
\* and every n, in every host zone.
C2_DayRoundTrip ==
    (/\ Chained
     /\ prev.op = "addDays"
     /\ call.op = "subtractDays"
     /\ call.days = prev.days
     /\ ~prev.input.nan)
        => call.result = prev.input

\* C8: toUnixTimestampSeconds(x) = floor(toUnixTimestamp(x) / 1000) for every
\* valid instant x, the instants before the epoch included.
C8_SecondsAreFloored ==
    (call.op = "toUnixTimestampSeconds" /\ ~call.input.nan)
        => call.result = Num(toUnixTimestamp(call.input).v \div 1000)

\* C9: toUnixTimestamp(fromUnixTimestamp(n)) = n for every integer n in the
\* range of instants, and fromUnixTimestamp(toUnixTimestamp(x)) = x for
\* every valid instant x.
C9_MillisRoundTrip ==
    /\ (/\ Chained
        /\ prev.op = "fromUnixTimestamp"
        /\ call.op = "toUnixTimestamp"
        /\ ~prev.input.nan
        /\ Abs(prev.input.v) <= MaxTimeValue)
            => call.result = prev.input
    /\ (/\ Chained
        /\ prev.op = "toUnixTimestamp"
        /\ call.op = "fromUnixTimestamp"
        /\ ~prev.input.nan)
            => call.result = prev.input

\* A timestamp at the lower end of the range has made the round trip.
C9_Witness ==
    /\ Chained
    /\ prev.op = "fromUnixTimestamp"
    /\ call.op = "toUnixTimestamp"
    /\ prev.input = Num(-MaxTimeValue)
    /\ call.result = Num(-MaxTimeValue)

\* C10: toUnixTimestampSeconds(fromUnixTimestampSeconds(s)) = s for every
\* integer s, negative, zero or positive, whose instant is in the range.
C10_SecondsRoundTrip ==
    (/\ Chained
     /\ prev.op = "fromUnixTimestampSeconds"
     /\ call.op = "toUnixTimestampSeconds"
     /\ ~prev.input.nan
     /\ Abs(prev.input.v) <= MaxTimeValue \div 1000)
        => call.result = prev.input

\* A negative number of seconds has made the round trip.
C10_Witness ==
    /\ Chained
    /\ prev.op = "fromUnixTimestampSeconds"
    /\ call.op = "toUnixTimestampSeconds"
    /\ prev.input = Num(-1500)
    /\ call.input = DateOf(-1500000)
    /\ call.result = Num(-1500)

\* C11: for every integer n, fromUnixTimestampSeconds(n) is the Date that
\* fromUnixTimestamp(n * 1000) is (the same time value, or both invalid),
\* and the Date made from the ISO string of an instant is the Date made
\* from its milliseconds and, for a whole second, from its seconds.
C11_SourceIndependence ==
    /\ (call.op = "fromUnixTimestampSeconds" /\ ~call.input.nan)
            => IF Abs(call.input.v) <= MaxTimeValue \div 1000 + 1
               THEN call.result = fromUnixTimestamp(Num(call.input.v * 1000))
               ELSE call.result = InvalidDate
    /\ (call.op = "fromUnixTimestamp" /\ ~call.result.nan)
            => isoDateToLocal(toISOString(call.result)) = call.result
    /\ (call.op = "isoDateToLocal" /\ ~call.result.nan)
            => /\ toISOString(call.result) = call.input
               /\ fromUnixTimestamp(toUnixTimestamp(call.result))
                    = call.result
               /\ call.result.v % 1000 = 0
                    => fromUnixTimestampSeconds(
                           toUnixTimestampSeconds(call.result))
                         = call.result

\* A negative number of seconds has been converted, and it is the Date of
\* the ISO string of that instant.
C11_Witness ==
    /\ call.op = "fromUnixTimestampSeconds"
    /\ call.input = Num(-2)
    /\ call.result = DateOf(-2000)
    /\ call.result = isoDateToLocal(Iso(1969, 12, 31, 23, 59, 58, 0))

\* The strings that spell out no instant of the range.
UnparseableOrOutOfRange ==
    {NotADate, Iso(1970, 13, 1, 0, 0, 0, 0), Iso(275761, 1, 1, 0, 0, 0, 0),
     Iso(1970, 1, 1 + MaxDays, 0, 0, 0, 1)}

\* C19: fromUnixTimestamp and fromUnixTimestampSeconds return a Date for
\* every integer; isValidDate is false of it exactly when the integer is
\* out of the range of instants, false of the Date of a string that is
\* unparseable or out of range, and true of every other Date.
C19_ValidityAndTotality ==
    /\ (call.op = "fromUnixTimestamp" /\ ~call.input.nan)
            => /\ call.result.kind = "Date"
               /\ isValidDate(call.result)
                    <=> Abs(call.input.v) <= MaxTimeValue
    /\ (call.op = "fromUnixTimestampSeconds" /\ ~call.input.nan)
            => /\ call.result.kind = "Date"
               /\ isValidDate(call.result)
                    <=> Abs(call.input.v) <= MaxTimeValue \div 1000
    /\ (Chained /\ call.op = "isValidDate")
            => /\ (prev.op = "fromUnixTimestamp" /\ ~prev.input.nan)
                    => (call.result.v <=> Abs(prev.input.v) <= MaxTimeValue)
               /\ (prev.op = "fromUnixTimestampSeconds" /\ ~prev.input.nan)
                    => (call.result.v
                          <=> Abs(prev.input.v) <= MaxTimeValue \div 1000)
               /\ prev.op = "isoDateToLocal"
                    => (call.result.v
                          <=> prev.input \notin UnparseableOrOutOfRange)
    /\ (call.op = "isValidDate" /\ call.input \in InputDates)
            => (call.result.v <=> call.input # InvalidDate)

\* isValidDate has said false of the Date of the first number of seconds
\* beyond the range.
C19_Witness ==
    /\ Chained
    /\ prev.op = "fromUnixTimestampSeconds"
    /\ prev.input = Num(MaxTimeValue \div 1000 + 1)
    /\ call.op = "isValidDate"
    /\ call.result = Bool(FALSE)

\* C25: subtractDays(n)(x) is addDays(-n)(x): the same Date, with the same
\* time value, for every Date x and every whole n, in every host zone.
C25_SubtractIsAddNegated ==
    call.op = "subtractDays"
        => /\ call.result = addDays(-call.days, call.input, hostTimeZone)
           /\ GetTime(call.result)
                = GetTime(addDays(-call.days, call.input, hostTimeZone))

\* On a host in New York a day has been taken off an instant of the day
\* after the start of daylight time: the result is not 24 hours earlier.
C25_Witness ==
    /\ call.op = "subtractDays"
    /\ call.days = 1
    /\ hostTimeZone = "America/New_York"
    /\ call.input = DateOf(6 * MsPerDay + MsPerHour)
    /\ call.result = DateOf(5 * MsPerDay + 2 * MsPerHour)

---------------------------------------------------------------------------
(* Claims about the formatting transformers (under Spec) *)

HumanPattern == "MMMM d, yyyy h:mm a" \o " " \o "zzz"

\* The Date a returned call formatted: its input, or the Date its
\* timestamp input was converted to.
FormattedDate(c) ==
    IF c.input.kind = "Date" THEN c.input
    ELSE IF c.xf.closure.isSeconds = "true" THEN fromUnixTime(c.input)
    ELSE NewDate(c.input)

\* C3: within one formatDateSmart call `now` is sampled once: the relative
\* phrase is computed from the very `now` the threshold was compared with,
\* also when the clock advances during the call.
C3_NowSampledOnce ==
    (call.op = "formatDateSmart" /\ call.branch = "relative")
        => /\ call.nowPhrase = call.nowDecision
           /\ call.result
                = formatDistanceToNow(call.input, MergeOptions(NoOptions),
                                      call.nowDecision, hostTimeZone)

\* What a transformer created without a zone returns when the default zone
\* is resolved at the moment of the application.
InAmbientZone(c) ==
    CASE c.op = "formatDateHuman" ->
            RunFormatDateHuman(formatDateHuman(Undefined, hostTimeZone),
                               c.input, hostTimeZone)
      [] c.op = "formatDateHumanFull" ->
            RunFormatDateHumanFull(
                formatDateHumanFull(Undefined, hostTimeZone), c.input,
                hostTimeZone)
      [] c.op = "formatDateLocal" ->
            formatInTimeZone(c.input, hostTimeZone,
                             c.xf.closure.formatString, hostTimeZone)
      [] c.op = "formatTimestampLocal" ->
            formatInTimeZone(FormattedDate(c), hostTimeZone,
                             IF Falsy(c.xf.closure.formatString)
                             THEN "MM/dd/yyyy h:mm a"
                             ELSE c.xf.closure.formatString,
                             hostTimeZone)
      [] c.op = "formatDateSmart" ->
            IF c.branch = "relative" THEN c.result
            ELSE RunFormatDateHuman(
                     formatDateHuman(Undefined, hostTimeZone), c.input,
                     hostTimeZone)

\* C4: formatDateHuman(), formatDateHumanFull(), formatDateLocal(),
\* formatTimestampLocal() and formatDateSmart() created without a zone
\* format, at each application, in the host zone in force at that
\* application, whatever the zone was when the transformer was created.
C4_DefaultZonePerInvocation ==
    (/\ call.op \in {"formatDateHuman", "formatDateHumanFull",
                     "formatDateLocal", "formatTimestampLocal",
                     "formatDateSmart"}
     /\ call.xf.zoneArg = Undefined)
        => call.result = InAmbientZone(call)

InvalidMarker == Str("Invalid Date", 0, "")

\* C5: formatting an invalid instant never throws: formatDate,
\* formatUSDate, formatEUDate, formatDateHuman, formatDateHumanFull,
\* formatRelative, formatTimestampRelative and formatDateSmart return one
\* fixed marker string for it.
C5_InvalidInstantRendersMarker ==
    (/\ call.op \in {"formatDate", "formatUSDate", "formatEUDate",
                     "formatDateHuman", "formatDateHumanFull",
                     "formatRelative", "formatTimestampRelative",
                     "formatDateSmart"}
     /\ FormattedDate(call).nan)
        => /\ call.result.kind # "throw"
           /\ call.result = InvalidMarker

\* |now - instant| of a returned formatDateSmart call, in milliseconds,
\* with the `now` its threshold comparison used.
ElapsedMs(c) == Abs(c.nowDecision - c.input.v)

\* C6: formatDateSmart(cutoffDays) returns the relative phrase when
\* |now - instant| / 86400000 <= cutoffDays (7 when cutoffDays is left
\* out), the bound included, and the human zoned format otherwise, for
\* past and for future instants alike.
C6_SmartDecisionRule ==
    (/\ call.op = "formatDateSmart"
     /\ ~call.input.nan
     /\ call.xf.zoneArg = Undefined)
        => LET cutoffDays == IF call.xf.cutoffArg.kind = "undefined"
                             THEN 7 ELSE call.xf.cutoffArg.v
           IN  IF ElapsedMs(call) <= cutoffDays * MsPerDay
               THEN call.result.pattern = "relative"
               ELSE call.result.pattern = HumanPattern

\* C7: the default of 7 days is used only when cutoffDays is left out: a
\* cutoffDays the caller supplies, 0 included, is the value the transformer
\* compares with, so formatDateSmart(0) of an instant one day in the past
\* is the human zoned format.
C7_SuppliedCutoffIsUsed ==
    (/\ call.op = "formatDateSmart"
     /\ ~call.input.nan
     /\ call.xf.cutoffArg.kind = "number")
        => (call.result.pattern = "relative"
                <=> ElapsedMs(call) <= call.xf.cutoffArg.v * MsPerDay)

\* The decision rule as the code has it: the threshold is the supplied
\* cutoffDays unless that is left out or 0, and 7 then.
SmartDecisionRuleOfTheCode ==
    (/\ call.op = "formatDateSmart"
     /\ ~call.input.nan
     /\ call.xf.zoneArg = Undefined)
        => LET cutoffDays == IF FalsyNum(call.xf.cutoffArg)
                             THEN 7 ELSE call.xf.cutoffArg.v
           IN  IF ElapsedMs(call) <= cutoffDays * MsPerDay
               THEN call.result.pattern = "relative"
               ELSE call.result.pattern = HumanPattern

\* C12: a zone argument the host does not know, the empty string included,
\* makes the call of formatDate, formatUSDate, formatEUDate,
\* formatDateHuman, formatDateHumanFull and formatDateSmart fail with an
\* error: no such call returns a string rendered in another zone.
C12_UnknownZoneFails ==
    (/\ call.op \in {"formatDate", "formatUSDate", "formatEUDate",
                     "formatDateHuman", "formatDateHumanFull",
                     "formatDateSmart"}
     /\ call.xf.zoneArg \notin TimezoneIds \cup {Undefined})
        => call.result.kind = "throw"

\* C13: getUserTimezone returns a zone identifier that is not empty and
\* that the host can resolve, also when the host reports no zone (a fixed
\* fallback then), and the formatters that default through it do not fail
\* for the lack of a zone.
C13_UserTimezoneAlwaysResolvable ==
    /\ call.op = "getUserTimezone"
            => (call.result # "" /\ call.result \in TimezoneIds)
    /\ (/\ call.op \in {"formatDateLocal", "formatTimestampLocal",
                         "formatDateHuman", "formatDateHumanFull",
                         "formatDateSmart"}
         /\ call.xf.zoneArg = Undefined
         /\ ~FormattedDate(call).nan)
            => call.result.kind # "throw"

\* The pattern a formatDate transformer prints with.
PatternOf(c) ==
    IF Falsy(c.xf.closure.formatString) THEN "MM/dd/yyyy"
    ELSE c.xf.closure.formatString

\* The wall clock of a zone at an instant: the instant shifted by the
\* zone's offset from UTC in force at that instant.
WallClock(zone, t) == t + Offset(zone, t)

\* C14: formatDate with an explicit zone prints the wall clock of that zone
\* at the instant, whatever the host's zone is: the calendar date and the
\* hour are those of the instant shifted by the zone's offset in force at
\* that instant, and formatDate("yyyy-MM-dd'T'HH:mm", "UTC") of the epoch is
\* "1970-01-01T00:00".
C14_ZonedWallClock ==
    (/\ call.op = "formatDate"
     /\ call.xf.zoneArg \in TimezoneIds
     /\ ~call.input.nan)
        => /\ call.result.kind = "string"
           /\ Text(call.result)
                = TextOfFields(PatternOf(call),
                               TimeFields(WallClock(call.xf.zoneArg,
                                                    call.input.v)))
           /\ (/\ PatternOf(call) = "yyyy-MM-dd'T'HH:mm"
               /\ call.xf.zoneArg = "UTC"
               /\ call.input = fromUnixTimestamp(Num(0)))
                  => Text(call.result) = "1970-01-01T00:00"

\* What the code does: the wall clock of the zone is printed unless the
\* host's own clock skips that reading.
ZonedWallClockUnlessTheHostSkipsIt ==
    (/\ call.op = "formatDate"
     /\ call.xf.zoneArg \in TimezoneIds
     /\ ~call.input.nan
     /\ LET wall == WallClock(call.xf.zoneArg, call.input.v)
        IN  LocalTime(hostTimeZone, UTCOfLocal(hostTimeZone, wall)) = wall)
        => Text(call.result)
             = TextOfFields(PatternOf(call),
                            TimeFields(WallClock(call.xf.zoneArg,
                                                 call.input.v)))

\* The zone formatUSDate and formatEUDate print in.
DefaultedZone(c) ==
    IF c.xf.zoneArg # Undefined THEN c.xf.zoneArg
    ELSE IF c.op = "formatUSDate" THEN "America/New_York"
    ELSE "Europe/Berlin"

DstZones == {z \in TimezoneIds : ZoneRules(z).std # ZoneRules(z).dst}

\* The transition of the zone that `c` was applied an hour before.
TransitionAfter(c) ==
    CHOOSE t \in {ZoneRules(c.xf.zoneArg).dstStart,
                  ZoneRules(c.xf.zoneArg).dstEnd} :
        c.input.v = t - MsPerHour

\* A formatDateHuman or formatDateHumanFull transformer of a zone with
\* daylight time has been applied to the instant an hour before a
\* transition of that zone.
BeforeTransition(c) ==
    /\ c.op \in {"formatDateHuman", "formatDateHumanFull"}
    /\ c.xf.zoneArg \in DstZones
    /\ ~c.input.nan
    /\ c.input.v + MsPerHour \in {ZoneRules(c.xf.zoneArg).dstStart,
                                  ZoneRules(c.xf.zoneArg).dstEnd}

\* What the same transformer returns for the instant an hour after it.
AfterTransition(c) ==
    RunClosure(c.xf.closure, DateOf(TransitionAfter(c) + MsPerHour), now,
               hostTimeZone)

\* The name of the zone at an instant, short or full.
ZoneNameAt(c, t) ==
    Render(IF c.op = "formatDateHuman" THEN "zzz" ELSE "zzzz",
           c.xf.zoneArg, t).zoneName

\* C16: formatDateHuman(zone) and formatDateHumanFull(zone), applied an
\* hour before and an hour after a transition of the zone, print different
\* zone names (EST, then EDT) and wall clocks that differ by the two hours
\* and the change of the offset; date-time and name of each output are
\* those of that instant in that zone.
C16_NamesAcrossTransition ==
    BeforeTransition(call)
        => LET zone == call.xf.zoneArg
               before == call.input.v
               after == TransitionAfter(call) + MsPerHour
               change == Offset(zone, after) - Offset(zone, before)
           IN  /\ call.result.kind = "string"
               /\ AfterTransition(call).kind = "string"
               /\ call.result.zoneName # AfterTransition(call).zoneName
               /\ AfterTransition(call).wall - call.result.wall
                    = 2 * MsPerHour + change
               /\ call.result.wall = WallClock(zone, before)
               /\ call.result.zoneName = ZoneNameAt(call, before)
               /\ AfterTransition(call).wall = WallClock(zone, after)
               /\ AfterTransition(call).zoneName = ZoneNameAt(call, after)

\* What the code does: the names are those of the instants and differ
\* across the transition, on every host.
NamesDifferAcrossTransition ==
    BeforeTransition(call)
        => /\ call.result.zoneName # AfterTransition(call).zoneName
           /\ call.result.zoneName = ZoneNameAt(call, call.input.v)
           /\ AfterTransition(call).zoneName
                = ZoneNameAt(call, TransitionAfter(call) + MsPerHour)
           /\ (call.op = "formatDateHuman"
                  /\ call.xf.zoneArg = "America/New_York"
                  /\ call.input.v < ZoneRules("America/New_York").dstStart)
                 => /\ call.result.zoneName = "EST"
                    /\ AfterTransition(call).zoneName = "EDT"

\* The caller of formatRelative has set addSuffix to false.
SetToFalse(options) ==
    options.given /\ options.hasAddSuffix /\ options.addSuffix = "false"

\* C17: formatRelative marks the direction unless the caller sets addSuffix
\* to false (options left out, given without addSuffix, or with addSuffix
\* undefined): "in " before the phrase of an instant later than now,
\* " ago" after the phrase of an earlier one; with addSuffix false the
\* phrase has neither.
C17_DirectionMarking ==
    (call.op = "formatRelative" /\ ~call.input.nan)
        => IF SetToFalse(call.xf.closure.options)
           THEN call.result.affix = ""
           ELSE /\ call.input.v > call.nowPhrase
                    => call.result.affix = "in "
                /\ call.input.v < call.nowPhrase
                    => call.result.affix = " ago"

\* What the code does: the direction is marked unless the caller's options
\* have an addSuffix property that is false or undefined.
DirectionMarkedUnlessOverridden ==
    (call.op = "formatRelative" /\ ~call.input.nan)
        => LET o == call.xf.closure.options
           IN  IF o.given /\ o.hasAddSuffix /\ o.addSuffix # "true"
               THEN call.result.affix = ""
               ELSE /\ call.input.v > call.nowPhrase
                        => call.result.affix = "in "
                    /\ call.input.v <= call.nowPhrase
                        => call.result.affix = " ago"

\* The unit a phrase names.
UnitOf(token) ==
    CASE token \in {"lessThanXSeconds", "xSeconds"} -> "seconds"
      [] token \in {"halfAMinute", "lessThanXMinutes", "xMinutes"} -> "minutes"
      [] token \in {"aboutXHours", "xHours"} -> "hours"
      [] token = "xDays" -> "days"
      [] OTHER -> "months"

ElapsedSeconds(c) == Abs(c.nowPhrase - c.input.v) \div 1000
WallMinutes(c) ==
    LET left == IF c.input.v < c.nowPhrase THEN c.input.v ELSE c.nowPhrase
        right == IF c.input.v < c.nowPhrase THEN c.nowPhrase ELSE c.input.v
        shift == (Offset(hostTimeZone, right) - Offset(hostTimeZone, left))
                     \div 1000
    IN  RoundDiv(ElapsedSeconds(c) + shift, 60)

C21_ExplicitZoneIgnoresAmbient ==
    (/\ call.op \in {"formatDate", "formatUSDate", "formatEUDate",
                     "formatDateHuman", "formatDateHumanFull"}
     /\ call.xf.zoneArg \in TimezoneIds)
        => \A host \in HostZones, clock \in {0, Now0, now} :
                call.result
                    = RunClosure(call.xf.closure, call.input, clock, host)

\* What the code does: the zone's name in the output never depends on the
\* host, and the whole output does not when the reading of the zone's
\* wall clock is one that both hosts' own clocks show.
ExplicitZoneIgnoresAmbientOutsideHostGaps ==
    (/\ call.op \in {"formatDate", "formatUSDate", "formatEUDate",
                     "formatDateHuman", "formatDateHumanFull"}
     /\ call.xf.zoneArg \in TimezoneIds
     /\ ~call.input.nan)
        => LET wall == WallClock(call.xf.zoneArg, call.input.v)
               Shown(host) ==
                   LocalTime(host, UTCOfLocal(host, wall)) = wall
           IN  \A host \in HostZones :
                 LET other == RunClosure(call.xf.closure, call.input, Now0,
                                         host)
                 IN  /\ other.zoneName = call.result.zoneName
                     /\ (Shown(host) /\ Shown(hostTimeZone))
                            => other = call.result

\* The Date formatTimestampRelative is to phrase: that of the conversion
\* from seconds when isSeconds is true, from milliseconds when it is false
\* or left out.
ConvertedTimestamp(c) ==
    IF c.xf.closure.isSeconds = "true"
    THEN fromUnixTimestampSeconds(c.input)
    ELSE fromUnixTimestamp(c.input)

\* C26: formatTimestampRelative(isSeconds)(t) returns what formatRelative()
\* with no options returns, against the same reading of the clock, for
\* fromUnixTimestampSeconds(t) when isSeconds is true and for
\* fromUnixTimestamp(t) when it is false or left out.
C26_TimestampRelativeDelegates ==
    call.op = "formatTimestampRelative"
        => call.result
             = RunClosure(formatRelative(NoOptions), ConvertedTimestamp(call),
                          call.nowPhrase, hostTimeZone)

\* A number of seconds two hours before now has been phrased.
C26_Witness ==
    /\ call.op = "formatTimestampRelative"
    /\ call.xf.closure.isSeconds = "true"
    /\ call.input = Num((Now0 - 2 * MsPerHour) \div 1000)
    /\ call.nowPhrase = Now0
    /\ Text(call.result) = "about 2 hours ago"

---------------------------------------------------------------------------
(* Claims about interleaved callers (under SpecTasks) *)

\* C20: no call reads or writes state shared between calls: with the clock
\* and the host's zone fixed, whatever calls the other callers have made
\* on the same Date object before, each call returns what it returns when
\* it is the only call made on the Date the client created, and the Date
\* object is left as it was.
C20_InterleavedCallsAsAlone ==
    /\ dateObj = cur
    /\ \A t \in TaskIds :
            tasks[t].pc = "returned"
                => tasks[t].result
                     = Invoke(tasks[t].op, tasks[t].days, cur, now,
                              hostTimeZone).result

\* One caller has moved the Date by a day and another has read it.
C20_Witness ==
    /\ tasks[1].pc = "returned"
    /\ tasks[1].op = "addDays"
    /\ tasks[1].days = 1
    /\ tasks[2].pc = "returned"
    /\ tasks[2].op = "toUnixTimestamp"
    /\ cur = DateOf(0)
    /\ tasks[1].result = DateOf(MsPerDay)
    /\ tasks[2].result = Num(0)

\* C27: no date operation modifies its input.  After any sequence of
\* formatDate, formatDateHuman, formatRelative, formatDateSmart, toUtc,
\* fromUtc, addDays and subtractDays calls on a Date x, the time value of
\* x is what it was, and the shift of addDays and subtractDays is in the
\* Date they return, not in x.
C27_InputsUnmodified ==
    /\ GetTime(dateObj) = GetTime(cur)
    /\ \A t \in TaskIds :
            (/\ tasks[t].pc = "returned"
             /\ tasks[t].op \in ShiftOps
             /\ tasks[t].days # 0
             /\ ~cur.nan)
                => /\ ~tasks[t].result.nan
                   /\ GetTime(tasks[t].result) # GetTime(dateObj)

\* On a host in UTC one caller has converted the Date of the epoch with
\* toUtc and another has added a day to it; it still is the epoch.
C27_Witness ==
    /\ hostTimeZone = "UTC"
    /\ tasks[1].pc = "returned"
    /\ tasks[1].op = "toUtc"
    /\ tasks[1].result = DateOf(5 * MsPerHour)
    /\ tasks[2].pc = "returned"
    /\ tasks[2].op = "addDays"
    /\ tasks[2].days = 1
    /\ tasks[2].result = DateOf(MsPerDay)
    /\ dateObj = DateOf(0)

---------------------------------------------------------------------------
(* Claims about objects, strings and arrays (under SpecData) *)

\* The entries of a fieldMap whose source field the object has, and the
\* keys of the object no entry names as a source.
PresentEntries(fieldMap, obj) ==
    {i \in 1 .. Len(fieldMap) : has(obj, OldKey(fieldMap[i]))}
UnmappedKeys(fieldMap, obj) ==
    DOMAIN obj \ {OldKey(fieldMap[i]) : i \in 1 .. Len(fieldMap)}

\* C22: in the object renameFields(fieldMap)(obj) returns, each mapped
\* source field that obj has is under its new name with the same value
\* and no longer under its old name, every unmapped field of obj is there
\* unchanged, and a mapping whose source field obj lacks adds no field.
C22_RenameFields ==
    call.op = "renameFields"
        => LET fieldMap == call.arg
               obj == call.input
               present == PresentEntries(fieldMap, obj)
               unmapped == UnmappedKeys(fieldMap, obj)
           IN  /\ \A i \in present :
                    /\ has(call.result, NewKey(fieldMap[i]))
                    /\ get(call.result, NewKey(fieldMap[i]))
                         = get(obj, OldKey(fieldMap[i]))
                    /\ ~has(call.result, OldKey(fieldMap[i]))
               /\ \A k \in unmapped :
                    has(call.result, k) /\ get(call.result, k) = get(obj, k)
               /\ DOMAIN call.result
                     \subseteq unmapped
                               \cup {NewKey(fieldMap[i]) : i \in present}

\* The new names are fresh: no two entries that apply share one, and none
\* is a key of the object.
FreshNames(fieldMap, obj) ==
    LET present == PresentEntries(fieldMap, obj)
    IN  /\ \A i, j \in present :
                i # j => NewKey(fieldMap[i]) # NewKey(fieldMap[j])
        /\ \A i \in present : ~has(obj, NewKey(fieldMap[i]))

\* What the code does: the same, when the new names are fresh.
RenameFieldsToFreshNames ==
    (call.op = "renameFields" /\ FreshNames(call.arg, call.input))
        => LET fieldMap == call.arg
               obj == call.input
               present == PresentEntries(fieldMap, obj)
               unmapped == UnmappedKeys(fieldMap, obj)
           IN  /\ \A i \in present :
                    /\ has(call.result, NewKey(fieldMap[i]))
                    /\ get(call.result, NewKey(fieldMap[i]))
                         = get(obj, OldKey(fieldMap[i]))
                    /\ ~has(call.result, OldKey(fieldMap[i]))
               /\ \A k \in unmapped :
                    has(call.result, k) /\ get(call.result, k) = get(obj, k)
               /\ DOMAIN call.result
                     = unmapped \cup {NewKey(fieldMap[i]) : i \in present}

\* C28: renameFields loses no value.  For a fieldMap over the keys of the
\* object (a key mapped to itself and two keys swapped included), each
\* value of the object is in the output under its original or its new key,
\* and the output has as many fields as the object when the new names are
\* distinct.
C28_RenameLosesNoValue ==
    (/\ call.op = "renameFields"
     /\ \A i \in 1 .. Len(call.arg) : has(call.input, OldKey(call.arg[i])))
        => LET fieldMap == call.arg
               obj == call.input
               Kept(k) ==
                   has(call.result, k) /\ get(call.result, k) = get(obj, k)
               Moved(k) ==
                   \E i \in 1 .. Len(fieldMap) :
                        /\ OldKey(fieldMap[i]) = k
                        /\ has(call.result, NewKey(fieldMap[i]))
                        /\ get(call.result, NewKey(fieldMap[i])) = get(obj, k)
           IN  /\ \A k \in DOMAIN obj : Kept(k) \/ Moved(k)
               /\ (\A i, j \in 1 .. Len(fieldMap) :
                        i # j => NewKey(fieldMap[i]) # NewKey(fieldMap[j]))
                    => Cardinality(DOMAIN call.result)
                         = Cardinality(DOMAIN obj)

\* The values a key has in the objects of a sequence that have it, in
\* their order.
RECURSIVE ValuesOf(_, _)
ValuesOf(key, objs) ==
    IF objs = <<>> THEN <<>>
    ELSE (IF has(Head(objs), key) THEN <<get(Head(objs), key)>> ELSE <<>>)
            \o ValuesOf(key, Tail(objs))

KeysOf(objs) == UNION {DOMAIN objs[i] : i \in 1 .. Len(objs)}

\* C23 as stated: mergeObjects(false, ...sources)(target) keeps the
\* target's value for every key of target and takes each key target lacks
\* from the first source that has it; mergeObjects(true, ...sources)(target)
\* gives every key of a source the value of the last source that has it;
\* target and the sources are left as they were.
C23_MergeObjects ==
    call.op = "mergeObjects"
        => LET target == call.input
               sources == call.arg.sources
               result == call.result.result
           IN  /\ call.result.target = target
               /\ call.result.sources = sources
               /\ ~call.arg.override
                    => /\ \A k \in DOMAIN target :
                            has(result, k) /\ get(result, k) = get(target, k)
                       /\ \A k \in KeysOf(sources) \ DOMAIN target :
                            /\ has(result, k)
                            /\ get(result, k) = Head(ValuesOf(k, sources))
               /\ call.arg.override
                    => \A k \in KeysOf(sources) :
                            LET values == ValuesOf(k, sources)
                            IN  /\ has(result, k)
                                /\ get(result, k) = values[Len(values)]

\* The values that are not undefined, in their order.
DefinedOf(values) == SelectSeq(values, LAMBDA v : v # Undef)

\* A later value onto an earlier one: two plain objects are merged key by
\* key, anything else is replaced.
RECURSIVE Onto(_, _)
Onto(earlier, later) ==
    IF isObject(earlier) /\ isObject(later)
    THEN Obj([k \in DOMAIN earlier.o \cup DOMAIN later.o |->
                IF ~has(later.o, k) \/ get(later.o, k) = Undef
                THEN IF has(earlier.o, k) THEN get(earlier.o, k) ELSE Undef
                ELSE IF has(earlier.o, k)
                THEN Onto(get(earlier.o, k), get(later.o, k))
                ELSE get(later.o, k)])
    ELSE later

RECURSIVE OntoAll(_, _)
OntoAll(value, later) ==
    IF later = <<>> THEN value
    ELSE OntoAll(Onto(value, Head(later)), Tail(later))

\* C23: the result has the keys of target and of the sources.  With
\* override false a key has the first of its values in target and the
\* sources, in that order, that is not undefined.  With override true it
\* has the last of them that is not undefined, except that a plain object
\* coming onto a plain object is merged into it key by key in the same
\* way.  A key whose values are all undefined is undefined.  target and
\* the sources are left as they were.
C23_MergeDefinedValues ==
    call.op = "mergeObjects"
        => LET target == call.input
               sources == call.arg.sources
               result == call.result.result
               all == <<target>> \o sources
           IN  /\ call.result.target = target
               /\ call.result.sources = sources
               /\ DOMAIN result = KeysOf(all)
               /\ \A k \in KeysOf(all) :
                    LET defined == DefinedOf(ValuesOf(k, all))
                    IN  get(result, k)
                          = IF defined = <<>> THEN Undef
                            ELSE IF call.arg.override
                            THEN OntoAll(Head(defined), Tail(defined))
                            ELSE Head(defined)

\* Updates with a nested object have been merged over a target with a
\* nested object: the nested objects are merged, and a source's undefined
\* has not replaced the target's number.
C23_Witness ==
    /\ call.op = "mergeObjects"
    /\ call.arg.override
    /\ call.input = [a |-> Obj([x |-> Prim(1)]), b |-> Prim(1)]
    /\ call.arg.sources = <<[a |-> Obj([y |-> Undef])]>>
    /\ call.result.result = [a |-> Obj([x |-> Prim(1), y |-> Undef]),
                             b |-> Prim(1)]
    /\ call.result.target = call.input

RoundTrip ==
    /\ call.op = "toApi"
    /\ prev.op = "toUi"
    /\ isValidDate(isoDateToLocal(prev.input.created_at))

HasSpace(str) == \E i \in 1 .. Len(str) : str[i] = " "

ItemsOfValue(array, v) == SelectSeq(array, LAMBDA item : iteratee(item) = v)

\* How often an item is in an array.
Occurrences(array, item) ==
    Cardinality({i \in 1 .. Len(array) : array[i] = item})

\* C30: sortItems(iteratee, ascending)(items) returns a permutation of
\* items in the order of the iteratee's values, non-decreasing when
\* ascending is true or left out and non-increasing when it is false, and
\* leaves items as it was; items of equal value are in their input order
\* in the ascending result and in the reverse of it in the descending one
\* (which is the ascending result reversed).
C30_SortItems ==
    call.op = "sortItems"
        => LET items == call.input
               result == call.result.result
               ascending == call.arg # "false"
               values == {iteratee(items[i]) : i \in 1 .. Len(items)}
           IN  /\ call.result.obj = items
               /\ Len(result) = Len(items)
               /\ \A item \in Items :
                    Occurrences(result, item) = Occurrences(items, item)
               /\ \A i, j \in 1 .. Len(result) :
                    i < j => IF ascending
                             THEN iteratee(result[i]) <= iteratee(result[j])
                             ELSE iteratee(result[i]) >= iteratee(result[j])
               /\ \A v \in values :
                    ItemsOfValue(result, v)
                        = IF ascending THEN ItemsOfValue(items, v)
                          ELSE reverse(ItemsOfValue(items, v))

\* Three items, the first and the last of the same age, have been sorted
\* in descending order: the last one comes first.
C30_Witness ==
    /\ call.op = "sortItems"
    /\ call.arg = "false"
    /\ call.input = <<[name |-> "x", age |-> 2], [name |-> "x", age |-> 1],
                      [name |-> "y", age |-> 2]>>
    /\ call.result.result
         = <<[name |-> "y", age |-> 2], [name |-> "x", age |-> 2],
             [name |-> "x", age |-> 1]>>
    /\ call.result.obj = call.input

=============================================================================
